---- MODULE Spec2Model ----
(***************************************************************************)
(* Verification model of the metadata / full-text acquisition engine of    *)
(* cygnet (peeplatex):                                                     *)
(*   - the batch of concurrent Crossref lookups of cli_update              *)
(*     (commands.py), run through the shared aiohttp session whose         *)
(*     connector caps the number of simultaneous connections (_shared.py); *)
(*   - publisher detection, DOI.to_full_pdf_url (peepcls.py) and its       *)
(*     older form DOIToFullPDFURL (refMgmt.py);                            *)
(*   - the PDF fetch, Article.register_pdf (peepcls.py);                   *)
(*   - the Crossref lookup, DOI.to_article_cr (peepcls.py) and its older   *)
(*     form doi_to_article_cr (peeparticle.py);                            *)
(*   - the comparison of two records, Article.diff (peepcls.py).           *)
(* Each part has its own specification (SpecBatch, SpecDetect, SpecFetch,  *)
(* SpecResolve, SpecDiff) over the same variables; the variables of the    *)
(* other parts stay at their initial values.                               *)
(***************************************************************************)
EXTENDS Integers, Sequences, FiniteSets, TLC

(***************************************************************************)
(* Bounds of the model.                                                    *)
(***************************************************************************)
\* Number of articles in the library (and so the largest batch).
NArticles == 3
\* The connector's limit. _shared.py:61 sets ahMaxRequests = 20; the model
\* scales it down so that a batch larger than the limit stays explorable.
ahMaxRequests == 2
\* Largest number of lines of a landing page body.
MaxLines == 2
\* Largest number of bytes of a PDF body, in units of one byte.
MaxBody == 3
\* Largest number of Elsevier redirects a fetch is taken through.
MaxHops == 2
\* Largest number of authors in a registry response.
MaxAuthors == 2
\* Bytes asked for per read of the response body. peepcls.py:455 sets
\* chunk_size = 2048; the model scales it down with the body.
ChunkSize == 2

NULL == "None"

(***************************************************************************)
(* Python's sorted() / list.sort(): a stable sort by an integer key;       *)
(* keys[i] is the key of s[i].                                             *)
(***************************************************************************)
StableSort(s, keys) ==
    LET n == Len(s)
        rank(i) == 1 + Cardinality({j \in 1..n :
                          \/ keys[j] < keys[i]
                          \/ keys[j] = keys[i] /\ j < i})
    IN  [p \in 1..n |-> s[CHOOSE i \in 1..n : rank(i) = p]]

\* The elements of a set of integers in ascending order.
RECURSIVE Ascending(_)
Ascending(S) ==
    IF S = {} THEN <<>>
    ELSE LET m == CHOOSE x \in S : \A y \in S : x <= y
         IN  <<m>> \o Ascending(S \ {m})

\* The DOI orders the library is drawn from: every rotation of the ascending
\* order of the DOIs 1..NArticles, and their descending order.
LibraryOrders ==
    {[i \in 1..NArticles |-> ((i + r) % NArticles) + 1] : r \in 0..(NArticles - 1)}
    \cup {[i \in 1..NArticles |-> NArticles + 1 - i]}

(***************************************************************************)
(* State of the batch of cli_update (commands.py).                         *)
(***************************************************************************)
VARIABLES
    articleList,    \* _g.articleList: sequence of [doi, title]
    refnos,         \* the selected reference numbers, sorted by DOI
    old_articles,   \* the stored records at refnos, same order
    new_articles,   \* the fetched records, in completion order
    triples,        \* zip(refnos, old_articles, new_articles) sorted by refno
    ipc,            \* position of each lookup coroutine
    ires,           \* outcome of each finished lookup coroutine
    doneq,          \* as_completed's queue: finished lookups, not yet awaited
    bpc,            \* position of cli_update
    ppos,           \* index of the triple presented next
    yes,            \* number of accepted updates
    changes,        \* _g.changes
    spinTask,       \* the Spinner's task: "none", "running", "done"
    spinDone        \* Spinner.done

batchVars == <<articleList, refnos, old_articles, new_articles, triples, ipc,
               ires, doneq, bpc, ppos, yes, changes, spinTask, spinDone>>

(***************************************************************************)
(* State of one publisher detection: DOI.to_full_pdf_url (peepcls.py,      *)
(* "cls") or DOIToFullPDFURL (refMgmt.py, "ref").                          *)
(***************************************************************************)
VARIABLES
    dimpl,          \* which of the two functions runs
    dpc,            \* its position
    dsession,       \* the ClientSession it created for itself: "given"
                    \* (one was passed in), "open" or "closed"
    dresp,          \* the landing page response
    derr,           \* the exception session.get raised, if any
    dreads,         \* the body lines read so far, by index, in reading order
    dresult         \* what the call returned or raised

detectVars == <<dimpl, dpc, dsession, dresp, derr, dreads, dresult>>

(***************************************************************************)
(* State of one fetch: Article.register_pdf (peepcls.py).                  *)
(***************************************************************************)
VARIABLES
    fpc,            \* position of the innermost register_pdf call
    fsrc,           \* its source path
    fgiven,         \* whether the outermost call was handed a session
    fhops,          \* number of Elsevier redirects followed so far
    sessOpen,       \* sessions created by the fetch and not closed
    sessCreated,    \* sessions created by the fetch
    fresp,          \* the response to the innermost call's request
    fremaining,     \* bytes of the body not yet read
    destDir,        \* whether the destination directory exists
    destFile,       \* the destination file: "absent", "old" or "new"
    destBytes,      \* bytes written to the destination file by the fetch
    fopens,         \* number of times the fetch opened the destination
    fspin,          \* the download Spinner's task
    fdone,          \* Spinner.done, in bytes
    fresult,        \* what the fetch returned or raised
    fdirBefore      \* whether the destination directory existed at the call

fetchVars == <<fpc, fsrc, fgiven, fhops, sessOpen, sessCreated, fresp, fremaining,
               destDir, destFile, destBytes, fopens, fspin, fdone, fresult,
               fdirBefore>>

(***************************************************************************)
(* State of one Crossref lookup: DOI.to_article_cr (peepcls.py, "cls") or  *)
(* doi_to_article_cr (peeparticle.py, "art").                              *)
(***************************************************************************)
VARIABLES
    rimpl,          \* which of the two functions runs
    rpc,            \* its position
    rgiven,         \* whether it was handed a session
    rsessOpen,      \* sessions it created and has not closed
    rresp,          \* the registry's response
    rarticle,       \* the Article it returned
    rexc            \* the exception that left it, if any

resolveVars == <<rimpl, rpc, rgiven, rsessOpen, rresp, rarticle, rexc>>

(***************************************************************************)
(* State of one comparison: Article.diff (peepcls.py).                     *)
(***************************************************************************)
VARIABLES
    diffpc,         \* "idle" before the call, "done" after it
    diffSelf,       \* the record diff is called on (the old one)
    diffOther,      \* the record it is compared with (the new one)
    ndiffs,         \* the count it returned
    printed         \* the lines it wrote, in order

diffVars == <<diffpc, diffSelf, diffOther, ndiffs, printed>>

(* An operation that shows a spinner: the style of spinner it uses, the     *)
(* position of the operation, how its body ended, the state of the spinner  *)
(* task, whether its cancellation was requested, the progress counter, the  *)
(* frames the spinner wrote and those it wrote after the operation ended.   *)
VARIABLES
    spstyle,
    sppc,
    spoutcome,
    sptask,
    spcancel,
    spdone,
    spframes,
    splate

spinVars == <<spstyle, sppc, spoutcome, sptask, spcancel, spdone, spframes,
              splate>>

(* cli_add: its position, its arguments, the DOIs it looks up, the          *)
(* articles that came back (in completion order), the position in that      *)
(* list and the two counters it prints; the clock that stamps time_added    *)
(* and the direction of the active sort (_sort.reverse).                    *)
VARIABLES
    addpc,
    addArgs,
    dois,
    articles,
    addpos,
    addYes,
    addNo,
    now,
    sortReverse

addVars == <<addpc, addArgs, dois, articles, addpos, addYes, addNo, now,
             sortReverse>>

(* parse_refnos: whether it was called, its arguments (each a sequence of    *)
(* characters) and its outcome.                                             *)
VARIABLES
    prpc,
    prargs,
    prresult

refVars == <<prpc, prargs, prresult>>

(* cli_delete: its position, its arguments, the article list and pending     *)
(* changes as they were when it was called, the outcome of parse_refnos, the *)
(* answer to the prompt, what the command returned or raised, and the DOIs   *)
(* that have a PDF in the library directory.                                 *)
VARIABLES
    delpc,
    delArgs,
    delBefore,
    delRefnos,
    delAns,
    delResult,
    delFiles

delVars == <<delpc, delArgs, delBefore, delRefnos, delAns, delResult, delFiles>>

(* The session: the current and the previous path, the db.yaml of every      *)
(* directory, the number of times the autosave task woke up, what cli_cd     *)
(* returned, the two undo histories (_g.cmdHistory, _g.articleListHistory),  *)
(* the number of commands whose history was saved, the article list as it    *)
(* was before each of them, and the outcome of the last undo.                *)
VARIABLES
    currentPath,
    previousPath,
    db,
    wakeups,
    cdResult,
    cmdHistory,
    articleListHistory,
    serial,
    preState,
    undone

sessVars == <<currentPath, previousPath, db, wakeups, cdResult, cmdHistory,
              articleListHistory, serial, preState, undone>>

vars == <<batchVars, detectVars, fetchVars, resolveVars, diffVars, spinVars, addVars, refVars, delVars, sessVars>>

Dirs == {"A", "B"}

\* A db.yaml: missing, not valid YAML, or the documents of a list of articles.
MissingFile == [kind |-> "missing", docs |-> <<>>]
InvalidFile == [kind |-> "invalid", docs |-> <<>>]

NoUndo ==
    [result |-> "none", printed |-> 0,
     before |-> [list |-> <<>>, changes |-> <<>>, cmds |-> <<>>, lists |-> <<>>]]

SessIdle ==
    /\ currentPath = NULL
    /\ previousPath = NULL
    /\ db = [d \in Dirs |-> MissingFile]
    /\ wakeups = 0
    /\ cdResult = NULL
    /\ cmdHistory = <<>>
    /\ articleListHistory = <<>>
    /\ serial = 0
    /\ preState = <<>>
    /\ undone = NoUndo


NoOutcome == [kind |-> "none", type |-> "none", value |-> {}, exc |-> NULL]

DeleteIdle ==
    /\ delpc = "idle"
    /\ delArgs = <<>>
    /\ delBefore = [list |-> <<>>, changes |-> <<>>]
    /\ delRefnos = NoOutcome
    /\ delAns = NULL
    /\ delResult = NULL
    /\ delFiles = {}


RefIdle ==
    /\ prpc = "idle"
    /\ prargs = <<>>
    /\ prresult = NoOutcome


AddIdle ==
    /\ addpc = "idle"
    /\ addArgs = <<>>
    /\ dois = <<>>
    /\ articles = <<>>
    /\ addpos = 0
    /\ addYes = 0
    /\ addNo = 0
    /\ now = 0
    /\ sortReverse = FALSE


SpinIdle ==
    /\ spstyle = "none"
    /\ sppc = "idle"
    /\ spoutcome = "none"
    /\ sptask = "none"
    /\ spcancel = FALSE
    /\ spdone = 0
    /\ spframes = 0
    /\ splate = 0


NoResponse ==
    [status |-> 0, cookies |-> {}, xfh |-> FALSE, link |-> "none", body |-> <<>>]
NoDetectResult ==
    [kind |-> "none", fail |-> FALSE, publisher |-> NULL, identifier |-> NULL,
     tagged |-> FALSE, exc |-> NULL]

DetectIdle ==
    /\ dimpl = "none"
    /\ dpc = "idle"
    /\ dsession = "given"
    /\ dresp = NoResponse
    /\ derr = NULL
    /\ dreads = <<>>
    /\ dresult = NoDetectResult

NoSource == [type |-> "none", sd |-> FALSE, exists |-> FALSE, copyOk |-> FALSE]
NoFetchResponse == [ctype |-> "none", redirect |-> FALSE, haslen |-> FALSE, size |-> 0]

FetchQuiet ==
    /\ fpc = "idle"
    /\ fsrc = NoSource
    /\ fgiven = FALSE
    /\ fhops = 0
    /\ sessOpen = 0
    /\ sessCreated = 0
    /\ fresp = NoFetchResponse
    /\ fremaining = 0
    /\ destBytes = 0
    /\ fopens = 0
    /\ fspin = "none"
    /\ fdone = 0
    /\ fresult = NULL
    /\ fdirBefore = TRUE

\* No fetch under way; the destination directory exists and holds no file.
FetchIdle ==
    /\ FetchQuiet
    /\ destDir = TRUE
    /\ destFile = "absent"

(***************************************************************************)
(* Python values of the fields of an Article: None, a str or an int (an    *)
(* int is written by its numeral). A list, or a value that may be missing, *)
(* is a sequence: <<>> for None or a missing key, <<x>> for x.             *)
(***************************************************************************)
PyNone == [t |-> "None", v |-> ""]
PyStr(s) == [t |-> "str", v |-> s]
PyInt(s) == [t |-> "int", v |-> s]

Opt(S) == {<<>>} \cup {<<x>> : x \in S}

\* Article(doi=doi): every other field None.
Article(doi) ==
    [title |-> PyNone, authors |-> <<>>, journal_long |-> PyNone,
     journal_short |-> PyNone, year |-> PyNone, volume |-> PyNone,
     issue |-> PyNone, pages |-> PyNone, doi |-> doi,
     time_added |-> PyNone, time_opened |-> PyNone]

NoRegistryResponse == [kind |-> "none"]

ResolveIdle ==
    /\ rimpl = "none"
    /\ rpc = "idle"
    /\ rgiven = TRUE
    /\ rsessOpen = 0
    /\ rresp = NoRegistryResponse
    /\ rarticle = Article(PyNone)
    /\ rexc = NULL

DiffIdle ==
    /\ diffpc = "idle"
    /\ diffSelf = Article(PyNone)
    /\ diffOther = Article(PyNone)
    /\ ndiffs = 0
    /\ printed = <<>>

Items == 1..NArticles

NoArticle == [doi |-> 0, title |-> NULL]
NoResult == [kind |-> "none", art |-> NoArticle, exc |-> NULL]

\* What the registry answers to one lookup: well-formed JSON carrying the
\* stored title ("T0") or a revised one ("T1"), a body that is not JSON, or
\* JSON lacking a field the mapping subscripts.
RegistryAnswers == {"json_T0", "json_T1", "nonjson", "malformed"}

\* doi_to_article_cr / DOI.to_article_cr once the response is in: the record
\* it returns, or the exception that leaves it.
DoiToArticleCr(doi, answer) ==
    CASE answer = "nonjson" ->
            \* ContentTypeError is caught: the blank Article with only the DOI
            [kind |-> "return", art |-> [doi |-> doi, title |-> NULL], exc |-> NULL]
      [] answer = "malformed" ->
            \* d["message"], d["author"], ... : KeyError is not caught
            [kind |-> "raise", art |-> NoArticle, exc |-> "KeyError"]
      [] answer = "json_T0" ->
            [kind |-> "return", art |-> [doi |-> doi, title |-> "T0"], exc |-> NULL]
      [] OTHER ->
            [kind |-> "return", art |-> [doi |-> doi, title |-> "T1"], exc |-> NULL]

\* session.get raising ClientConnectorError: no except clause of the lookup
\* names it.
ConnectFailure == [kind |-> "raise", art |-> NoArticle, exc |-> "ClientConnectorError"]

\* Lookups that hold one of the connector's connections.
Held == {k \in Items : ipc[k] = "conn"}

\* aiohttp.TCPConnector(limit=ahMaxRequests): a request gets a connection
\* only while fewer than the limit are in use.
CanAcquire_Unlimited(held) == TRUE
CanAcquire(held) == Cardinality(held) < ahMaxRequests

PairDoi(p) == p.art.doi
ArticleDoi(a) == a.doi
TripleRefno(t) == t.refno

\* sorted(zip(old_articles, refnos), key=lambda t: t[0].doi)
SortPairsByDoi(pairs) == StableSort(pairs, [k \in 1..Len(pairs) |-> PairDoi(pairs[k])])

\* new_articles.sort(key=attrgetter("doi"))
SortNewArticles_Unsorted(arts) == arts
SortNewArticles(arts) == StableSort(arts, [k \in 1..Len(arts) |-> ArticleDoi(arts[k])])

\* zip(*sorted(zip(refnos, old_articles, new_articles)))
ZipByRefno(rs, olds, news) ==
    LET zipped == [k \in 1..Len(rs) |-> [refno |-> rs[k], old |-> olds[k], new |-> news[k]]]
    IN  StableSort(zipped, [k \in 1..Len(rs) |-> TripleRefno(zipped[k])])

\* Article.diff restricted to the two fields of the model: 0 for equal
\* records, otherwise the number of fields that are unset or differ (the
\* doi of a stored or fetched record is never unset).
DiffArticles(old, new) ==
    IF old = new THEN 0
    ELSE (IF old.doi = new.doi THEN 0 ELSE 1)
         + (IF old.title # NULL /\ old.title = new.title THEN 0 ELSE 1)

BatchIdle ==
    /\ refnos = <<>>
    /\ old_articles = <<>>
    /\ new_articles = <<>>
    /\ triples = <<>>
    /\ ipc = [k \in Items |-> "none"]
    /\ ires = [k \in Items |-> NoResult]
    /\ doneq = <<>>
    /\ bpc = "idle"
    /\ ppos = 0
    /\ yes = 0
    /\ changes = <<>>
    /\ spinTask = "none"
    /\ spinDone = 0

\* The library holds NArticles records with distinct DOIs, in any order.
InitBatch ==
    /\ SessIdle
    /\ DeleteIdle
    /\ RefIdle
    /\ AddIdle
    /\ SpinIdle
    /\ \E p \in LibraryOrders :
          articleList = [i \in 1..NArticles |-> [doi |-> p[i], title |-> "T0"]]
    /\ BatchIdle
    /\ DetectIdle
    /\ FetchIdle
    /\ ResolveIdle
    /\ DiffIdle

\* cli_update up to its first await: parse_refnos has selected sel, the
\* records are sorted by DOI, one coroutine per record is handed to
\* as_completed and the Spinner is entered.
CliUpdate(sel) ==
    /\ bpc = "idle"
    /\ articleList # <<>>
    /\ sel # {}
    /\ LET rs == Ascending(sel)
           pairs == [k \in 1..Len(rs) |-> [art |-> articleList[rs[k]], refno |-> rs[k]]]
           sorted == SortPairsByDoi(pairs)
       IN  /\ old_articles' = [k \in 1..Len(rs) |-> sorted[k].art]
           /\ refnos' = [k \in 1..Len(rs) |-> sorted[k].refno]
           /\ ipc' = [k \in Items |-> IF k <= Len(rs) THEN "created" ELSE "none"]
    /\ new_articles' = <<>>
    /\ spinTask' = "running"
    /\ spinDone' = 0
    /\ bpc' = "gather"
    /\ UNCHANGED <<articleList, triples, ires, doneq, ppos, yes, changes>>
    /\ UNCHANGED <<detectVars, fetchVars, resolveVars, diffVars, spinVars, addVars, refVars, delVars, sessVars>>

\* A lookup coroutine starts running: it builds its blank Article and calls
\* session.get, where it waits for a connection.
ItemStart(k) ==
    /\ ipc[k] = "created"
    /\ ipc' = [ipc EXCEPT ![k] = "waiting"]
    /\ UNCHANGED <<articleList, refnos, old_articles, new_articles, triples, ires,
                   doneq, bpc, ppos, yes, changes, spinTask, spinDone>>
    /\ UNCHANGED <<detectVars, fetchVars, resolveVars, diffVars, spinVars, addVars, refVars, delVars, sessVars>>

\* The connector hands the lookup a connection.
ItemConnect(k) ==
    /\ ipc[k] = "waiting"
    /\ CanAcquire(Held)
    /\ ipc' = [ipc EXCEPT ![k] = "conn"]
    /\ UNCHANGED <<articleList, refnos, old_articles, new_articles, triples, ires,
                   doneq, bpc, ppos, yes, changes, spinTask, spinDone>>
    /\ UNCHANGED <<detectVars, fetchVars, resolveVars, diffVars, spinVars, addVars, refVars, delVars, sessVars>>

\* The connection cannot be established: session.get raises
\* ClientConnectorError, which leaves the coroutine.
ItemConnectFail(k) ==
    /\ ipc[k] = "waiting"
    /\ CanAcquire(Held)
    /\ ipc' = [ipc EXCEPT ![k] = "raised"]
    /\ ires' = [ires EXCEPT ![k] = ConnectFailure]
    /\ doneq' = Append(doneq, k)
    /\ UNCHANGED <<articleList, refnos, old_articles, new_articles, triples,
                   bpc, ppos, yes, changes, spinTask, spinDone>>
    /\ UNCHANGED <<detectVars, fetchVars, resolveVars, diffVars, spinVars, addVars, refVars, delVars, sessVars>>

\* The response arrives; the connection is released and the coroutine ends.
ItemRespond(k, answer) ==
    /\ ipc[k] = "conn"
    /\ LET r == DoiToArticleCr(old_articles[k].doi, answer)
       IN  /\ ires' = [ires EXCEPT ![k] = r]
           /\ ipc' = [ipc EXCEPT ![k] = IF r.kind = "raise" THEN "raised" ELSE "returned"]
    /\ doneq' = Append(doneq, k)
    /\ UNCHANGED <<articleList, refnos, old_articles, new_articles, triples,
                   bpc, ppos, yes, changes, spinTask, spinDone>>
    /\ UNCHANGED <<detectVars, fetchVars, resolveVars, diffVars, spinVars, addVars, refVars, delVars, sessVars>>

\* One turn of "for crt in asyncio.as_completed(crts): await crt": the next
\* finished lookup is awaited. Its exception leaves cli_update through the
\* Spinner's __aexit__; its record is appended. After the last one the
\* lists are sorted and zipped.
Collect ==
    /\ bpc = "gather"
    /\ doneq # <<>>
    /\ LET k == Head(doneq)
       IN  IF ires[k].kind = "raise"
           THEN /\ bpc' = "raised"
                /\ spinTask' = "done"
                /\ UNCHANGED <<new_articles, triples, spinDone, ppos>>
           ELSE LET got == Append(new_articles, ires[k].art)
                IN  /\ new_articles' = got
                    /\ spinDone' = spinDone + 1
                    /\ IF Len(got) = Len(refnos)
                       THEN /\ triples' = ZipByRefno(refnos, old_articles, SortNewArticles(got))
                            /\ bpc' = "present"
                            /\ spinTask' = "done"
                            /\ ppos' = 1
                       ELSE UNCHANGED <<triples, bpc, spinTask, ppos>>
    /\ doneq' = Tail(doneq)
    /\ UNCHANGED <<articleList, refnos, old_articles, ipc, ires, yes, changes>>
    /\ UNCHANGED <<detectVars, fetchVars, resolveVars, diffVars, spinVars, addVars, refVars, delVars, sessVars>>

\* One turn of the presentation loop: a failed lookup is reported, an
\* unchanged record is skipped, otherwise the user is asked (an interrupted
\* prompt counts as "no") and a "yes" replaces the stored record.
PresentStep_AcceptsFailed(ans) ==
    /\ bpc = "present"
    /\ ppos <= Len(triples)
    /\ LET t == triples[ppos]
           prompted == DiffArticles(t.old, t.new) # 0
       IN  /\ ~prompted => ans = "no"
           /\ IF prompted /\ ans = "yes"
              THEN /\ articleList' = [articleList EXCEPT ![t.refno] = t.new]
                   /\ yes' = yes + 1
              ELSE UNCHANGED <<articleList, yes>>
    /\ ppos' = ppos + 1
    /\ UNCHANGED <<refnos, old_articles, new_articles, triples, ipc, ires, doneq,
                   bpc, changes, spinTask, spinDone>>
    /\ UNCHANGED <<detectVars, fetchVars, resolveVars, diffVars, spinVars, addVars, refVars, delVars, sessVars>>
PresentStep(ans) ==
    /\ bpc = "present"
    /\ ppos <= Len(triples)
    /\ LET t == triples[ppos]
           prompted == t.new.title # NULL /\ DiffArticles(t.old, t.new) # 0
       IN  /\ ~prompted => ans = "no"
           /\ IF prompted /\ ans = "yes"
              THEN /\ articleList' = [articleList EXCEPT ![t.refno] = t.new]
                   /\ yes' = yes + 1
              ELSE UNCHANGED <<articleList, yes>>
    /\ ppos' = ppos + 1
    /\ UNCHANGED <<refnos, old_articles, new_articles, triples, ipc, ires, doneq,
                   bpc, changes, spinTask, spinDone>>
    /\ UNCHANGED <<detectVars, fetchVars, resolveVars, diffVars, spinVars, addVars, refVars, delVars, sessVars>>

\* After the loop: _g.changes += ["update"] * yes, return SUCCESS.
CliUpdateFinish ==
    /\ bpc = "present"
    /\ ppos > Len(triples)
    /\ changes' = changes \o [i \in 1..yes |-> "update"]
    /\ bpc' = "done"
    /\ UNCHANGED <<articleList, refnos, old_articles, new_articles, triples, ipc,
                   ires, doneq, ppos, yes, spinTask, spinDone>>
    /\ UNCHANGED <<detectVars, fetchVars, resolveVars, diffVars, spinVars, addVars, refVars, delVars, sessVars>>

\* The task running cli_update is cancelled while it awaits a lookup:
\* CancelledError is raised at "await crt" and leaves through the Spinner's
\* __aexit__, which cancels and awaits the spinner task only. Nothing in
\* cli_update cancels or awaits the lookups as_completed has scheduled.
CancelBatch ==
    /\ bpc = "gather"
    /\ bpc' = "cancelled"
    /\ spinTask' = "done"
    /\ UNCHANGED <<articleList, refnos, old_articles, new_articles, triples, ipc,
                   ires, doneq, ppos, yes, changes, spinDone>>
    /\ UNCHANGED <<detectVars, fetchVars, resolveVars, diffVars, spinVars, addVars, refVars, delVars, sessVars>>

NextBatch ==
    \/ \E sel \in SUBSET (1..NArticles) : CliUpdate(sel)
    \/ \E k \in Items : ItemStart(k)
    \/ \E k \in Items : ItemConnect(k)
    \/ \E k \in Items : ItemConnectFail(k)
    \/ \E k \in Items, a \in RegistryAnswers : ItemRespond(k, a)
    \/ Collect
    \/ \E ans \in {"yes", "no"} : PresentStep(ans)
    \/ CliUpdateFinish
    \/ CancelBatch

SpecBatch == InitBatch /\ [][NextBatch]_vars

(***************************************************************************)
(* Claims about the batch.                                                 *)
(***************************************************************************)
\* Lookups whose coroutine has started and has not yet returned or raised.
StartedUnresolved == {k \in Items : ipc[k] \in {"waiting", "conn"}}

\* C1 as stated: at no point are more than ahMaxRequests lookups of a batch
\* started and not yet resolved. (as_completed starts every lookup at once,
\* so this fails for a batch larger than the limit.)
C1_StartedWithinCap == Cardinality(StartedUnresolved) <= ahMaxRequests

\* C1, amended: at no point do more than ahMaxRequests lookups of a batch
\* hold a connection of the shared session, however many have been started.
C1_ConnectionsWithinCap == Cardinality(Held) <= ahMaxRequests

\* A batch larger than the limit with the limit reached and a lookup waiting.
C1_Witness ==
    /\ Len(refnos) > ahMaxRequests
    /\ Cardinality(Held) = ahMaxRequests
    /\ \E k \in Items : ipc[k] = "waiting"

\* C2: once cli_update has left its gathering loop, by finishing it or by an
\* exception, the result of every submitted lookup (a record or the failure
\* sentinel) has been delivered to it; one lookup's failure does not keep
\* the others' results from the caller.
C2_EveryItemDelivered ==
    bpc \in {"present", "done", "raised"} =>
        \A k \in 1..Len(refnos) :
            \E j \in 1..Len(new_articles) : new_articles[j].doi = old_articles[k].doi

\* C3: whatever the completion order, every fetched record is paired with
\* the stored record of the same DOI at that record's own reference number,
\* so a replacement never changes the DOI stored at a reference number.
C3_PairedBySameDoi ==
    bpc \in {"present", "done"} =>
        \A j \in 1..Len(triples) :
            /\ triples[j].new.doi = triples[j].old.doi
            /\ articleList[triples[j].refno].doi = triples[j].old.doi

\* An update of at least two records has finished with replacements, the
\* lookups having completed in an order that is neither the DOI order nor
\* the order of the reference numbers.
C3_Witness ==
    /\ bpc = "done"
    /\ yes >= 2
    /\ \E i, j \in 1..Len(new_articles) : i < j /\ new_articles[i].doi > new_articles[j].doi
    /\ \E i, j \in 1..Len(refnos) : i < j /\ refnos[i] > refnos[j]
    /\ [j \in 1..Len(triples) |-> triples[j].new] # new_articles

\* C4: once cli_update has reported its cancellation, no lookup of the batch
\* is still outstanding.
C4_CancelStopsLookups ==
    bpc = "cancelled" => \A k \in Items : ipc[k] \notin {"created", "waiting", "conn"}

(***************************************************************************)
(* Publisher detection.                                                    *)
(***************************************************************************)
\* The four regular expressions of publisherRegex, named by the tag or
\* attribute they look for.
RegexNames == {"citation_publisher", "redirectURL", "dc.Publisher", "citation_pdf_url"}

\* What a regex finds on a line: no match, or a match whose group 1
\* contains the given keywords.
NoMatch == [m |-> FALSE, g |-> {}]
Group(keywords) == [m |-> TRUE, g |-> keywords]

MakeLine(cp, red, dc, pdf) ==
    [x \in RegexNames |->
        CASE x = "citation_publisher" -> cp
          [] x = "redirectURL" -> red
          [] x = "dc.Publisher" -> dc
          [] OTHER -> pdf]

\* The lines a landing page body is made of.
PlainLine == MakeLine(NoMatch, NoMatch, NoMatch, NoMatch)
WileyLine == MakeLine(Group({"John Wiley"}), NoMatch, NoMatch, NoMatch)
OtherPublisherLine == MakeLine(Group({"Elsevier"}), NoMatch, NoMatch, NoMatch)
ElsevierLine == MakeLine(NoMatch, Group({"pii"}), NoMatch, NoMatch)
TandfLine == MakeLine(NoMatch, NoMatch, Group({"Taylor"}), NoMatch)
AnnrevLine == MakeLine(NoMatch, NoMatch, Group({"Annual Reviews"}), NoMatch)
BothDcLine == MakeLine(NoMatch, NoMatch, Group({"Taylor", "Annual Reviews"}), NoMatch)
RscLine == MakeLine(NoMatch, NoMatch, NoMatch, Group({"path"}))
WileyRscLine == MakeLine(Group({"John Wiley"}), NoMatch, NoMatch, Group({"path"}))

LineKinds == {PlainLine, WileyLine, OtherPublisherLine, ElsevierLine, TandfLine,
              AnnrevLine, BothDcLine, RscLine, WileyRscLine}

Bodies == UNION {[1..n -> LineKinds] : n \in 0..MaxLines}

CookieDomains == {"pubs.acs.org", ".springer.com", ".tandfonline.com"}

\* The responses to GET https://doi.org/{doi}: the status, the known domains
\* named by Set-Cookie headers, whether an X-Forwarded-Host header names
\* www.nature.com, whether a Link header names science.sciencemag.org (and
\* whether the first Link header has "/content/" before its first ">"), and
\* the body.
Responses ==
    [status : {200, 404}, cookies : SUBSET CookieDomains, xfh : BOOLEAN,
     link : {"none", "science", "science_nocontent"}, body : Bodies]

\* The exceptions of session.get that the functions name in an except clause.
RequestErrors == {"ContentTypeError", "InvalidURL", "ClientConnectorError"}

\* publisherRegex, in the order of the dict literal (the order a dict is
\* iterated in): name, regex, and the string group 1 must contain.
publisherRegex_AnnrevFirst ==
    << [name |-> "wiley", regex |-> "citation_publisher", keyword |-> "John Wiley"],
       [name |-> "elsevier", regex |-> "redirectURL", keyword |-> ""],
       [name |-> "annrev", regex |-> "dc.Publisher", keyword |-> "Annual Reviews"],
       [name |-> "tandf", regex |-> "dc.Publisher", keyword |-> "Taylor"],
       [name |-> "rsc", regex |-> "citation_pdf_url", keyword |-> ""] >>
publisherRegex ==
    << [name |-> "wiley", regex |-> "citation_publisher", keyword |-> "John Wiley"],
       [name |-> "elsevier", regex |-> "redirectURL", keyword |-> ""],
       [name |-> "tandf", regex |-> "dc.Publisher", keyword |-> "Taylor"],
       [name |-> "annrev", regex |-> "dc.Publisher", keyword |-> "Annual Reviews"],
       [name |-> "rsc", regex |-> "citation_pdf_url", keyword |-> ""] >>

\* "match and regexKeyword[1] in match.group(1)"; the empty string is in
\* every group.
EntrySucceeds(entry, line) ==
    /\ line[entry.regex].m
    /\ entry.keyword = "" \/ entry.keyword \in line[entry.regex].g

\* The inner for loop over publisherRegex.items(): the index of the first
\* entry that succeeds on the line, 0 if none does.
FirstEntry(line) ==
    IF \E k \in 1..Len(publisherRegex) : EntrySucceeds(publisherRegex[k], line)
    THEN CHOOSE k \in 1..Len(publisherRegex) :
            /\ EntrySucceeds(publisherRegex[k], line)
            /\ \A j \in 1..(k - 1) : ~EntrySucceeds(publisherRegex[j], line)
    ELSE 0

\* The identifier formatted into the publisher's URL.
Identifier(publisher) ==
    CASE publisher \in {"acs", "springer", "tandf", "wiley", "annrev"} -> "doi"
      [] publisher = "nature" -> "doi_suffix"
      [] publisher = "science" -> "link_path"
      [] OTHER -> "group1"

UrlResult(impl, publisher) ==
    [kind |-> "return", fail |-> FALSE, publisher |-> publisher,
     identifier |-> Identifier(publisher), tagged |-> (impl = "ref"), exc |-> NULL]
FailureResult(impl) ==
    [kind |-> "return", fail |-> TRUE, publisher |-> NULL, identifier |-> NULL,
     tagged |-> (impl = "ref"), exc |-> NULL]
RaiseResult(exc) ==
    [kind |-> "raise", fail |-> FALSE, publisher |-> NULL, identifier |-> NULL,
     tagged |-> FALSE, exc |-> exc]

\* The if / elif chain over the response headers: the publisher of the first
\* branch that applies, "none" if the body has to be read.
HeaderShortcut_NoAcs(r) ==
    CASE r.xfh -> "nature"
      [] r.link # "none" -> "science"
      [] ".springer.com" \in r.cookies -> "springer"
      [] ".tandfonline.com" \in r.cookies -> "tandf"
      [] OTHER -> "none"
HeaderShortcut(r) ==
    IF "pubs.acs.org" \in r.cookies THEN "acs"
    ELSE IF r.xfh THEN "nature"
    ELSE IF r.link # "none" THEN "science"
    ELSE IF ".springer.com" \in r.cookies THEN "springer"
    ELSE IF ".tandfonline.com" \in r.cookies THEN "tandf"
    ELSE "none"

\* What a header branch ends in: _PublisherFound and so the publisher's URL;
\* for Science, resp.headers["Link"].split(">")[0].split("/content/")[1]
\* raises IndexError when "/content/" is missing.
ShortcutResult(impl, r) ==
    IF HeaderShortcut(r) = "science" /\ r.link = "science_nocontent"
    THEN RaiseResult("IndexError")
    ELSE UrlResult(impl, HeaderShortcut(r))

\* The else branch of the try: the body ran out without a match.
NotFoundResult_Raises(impl) == RaiseResult("NameError")
NotFoundResult(impl) == FailureResult(impl)

\* The except clause for RequestErrors: both functions format the
\* undefined name url_doi (the variable is doi_url) into the message.
ErrorHandlerResult(impl) == RaiseResult("NameError")

\* DOIToFullPDFURL, "if resp.status != 200": the message formats the
\* undefined name psrc. to_full_pdf_url does not look at the status.
ChecksStatus(impl) == impl = "ref"
BadStatusResult(impl) == RaiseResult("NameError")

\* The session to_full_pdf_url created for itself is closed after the try
\* statement, which an escaping exception skips.
SessionAfter(session, result) ==
    IF session = "open" /\ result.kind = "return" THEN "closed" ELSE session

\* The call, up to the request: to_full_pdf_url creates a session when none
\* is passed in; DOIToFullPDFURL always takes one.
DetectCall(impl, own) ==
    /\ dpc = "idle"
    /\ impl = "ref" => ~own
    /\ dimpl' = impl
    /\ dsession' = IF own THEN "open" ELSE "given"
    /\ dpc' = "requested"
    /\ UNCHANGED <<dresp, derr, dreads, dresult>>
    /\ UNCHANGED <<batchVars, fetchVars, resolveVars, diffVars, spinVars, addVars, refVars, delVars, sessVars>>

DetectFinish(result) ==
    /\ dresult' = result
    /\ dpc' = IF result.kind = "raise" THEN "raised" ELSE "returned"
    /\ dsession' = SessionAfter(dsession, result)

\* session.get raises one of the exceptions the except clause names.
DetectRequestFails(err) ==
    /\ dpc = "requested"
    /\ derr' = err
    /\ DetectFinish(ErrorHandlerResult(dimpl))
    /\ UNCHANGED <<dimpl, dresp, dreads>>
    /\ UNCHANGED <<batchVars, fetchVars, resolveVars, diffVars, spinVars, addVars, refVars, delVars, sessVars>>

\* The response headers arrive: the status check (DOIToFullPDFURL only) and
\* the header shortcuts; otherwise the body is about to be read.
DetectResponse ==
    /\ dpc = "requested"
    /\ \E r \in Responses :
          /\ dresp' = r
          /\ IF ChecksStatus(dimpl) /\ r.status # 200
             THEN DetectFinish(BadStatusResult(dimpl))
             ELSE IF HeaderShortcut(r) # "none"
                  THEN DetectFinish(ShortcutResult(dimpl, r))
                  ELSE /\ dpc' = "scanning"
                       /\ UNCHANGED <<dsession, dresult>>
    /\ UNCHANGED <<dimpl, derr, dreads>>
    /\ UNCHANGED <<batchVars, fetchVars, resolveVars, diffVars, spinVars, addVars, refVars, delVars, sessVars>>

\* One turn of "async for line in resp.content": the next line is read and
\* searched with every regex, in table order.
DetectReadLine ==
    /\ dpc = "scanning"
    /\ Len(dreads) < Len(dresp.body)
    /\ LET i == Len(dreads) + 1
           k == FirstEntry(dresp.body[i])
       IN  /\ dreads' = Append(dreads, i)
           /\ IF k # 0
              THEN DetectFinish(UrlResult(dimpl, publisherRegex[k].name))
              ELSE UNCHANGED <<dpc, dsession, dresult>>
    /\ UNCHANGED <<dimpl, dresp, derr>>
    /\ UNCHANGED <<batchVars, fetchVars, resolveVars, diffVars, spinVars, addVars, refVars, delVars, sessVars>>

\* The stream is exhausted: the loop ends and the try's else branch runs.
DetectBodyExhausted ==
    /\ dpc = "scanning"
    /\ Len(dreads) = Len(dresp.body)
    /\ DetectFinish(NotFoundResult(dimpl))
    /\ UNCHANGED <<dimpl, dresp, derr, dreads>>
    /\ UNCHANGED <<batchVars, fetchVars, resolveVars, diffVars, spinVars, addVars, refVars, delVars, sessVars>>

\* A library in ascending DOI order, nothing else under way.
InitDetect ==
    /\ SessIdle
    /\ DeleteIdle
    /\ RefIdle
    /\ AddIdle
    /\ SpinIdle
    /\ articleList = [i \in 1..NArticles |-> [doi |-> i, title |-> "T0"]]
    /\ BatchIdle
    /\ DetectIdle
    /\ FetchIdle
    /\ ResolveIdle
    /\ DiffIdle

NextDetect ==
    \/ \E impl \in {"cls", "ref"}, own \in BOOLEAN : DetectCall(impl, own)
    \/ \E err \in RequestErrors : DetectRequestFails(err)
    \/ DetectResponse
    \/ DetectReadLine
    \/ DetectBodyExhausted

SpecDetect == InitDetect /\ [][NextDetect]_vars

(***************************************************************************)
(* Claims about publisher detection.                                       *)
(***************************************************************************)
DetectDone == dpc \in {"returned", "raised"}

\* A response was received, and the function went on to its headers.
HeadersInspected ==
    /\ dpc \in {"scanning", "returned", "raised"}
    /\ derr = NULL
    /\ ChecksStatus(dimpl) => dresp.status = 200

\* The publishers whose domain a Set-Cookie header of the response names.
CookiePublishers(r) ==
    {p \in {"acs", "springer", "tandf"} :
        \/ p = "acs" /\ "pubs.acs.org" \in r.cookies
        \/ p = "springer" /\ ".springer.com" \in r.cookies
        \/ p = "tandf" /\ ".tandfonline.com" \in r.cookies}

ReturnsUrlOf(publisher) ==
    /\ dresult.kind = "return"
    /\ ~dresult.fail
    /\ dresult.publisher = publisher
    /\ dresult.identifier = "doi"

\* C5 as stated: a response with a Set-Cookie header naming a known
\* publisher domain makes detection return that publisher's PDF URL, and
\* the body is never read.
C5_CookieGivesItsPublisher ==
    (HeadersInspected /\ dresp.cookies # {}) =>
        /\ dreads = <<>>
        /\ DetectDone
        /\ \E p \in CookiePublishers(dresp) : ReturnsUrlOf(p)

\* C5, amended: with such a cookie the body is never read; the ACS cookie
\* always yields the ACS URL, and a Springer or Taylor & Francis cookie
\* yields that publisher's URL (Springer first) when the response has
\* neither an X-Forwarded-Host naming www.nature.com nor a Link naming
\* science.sciencemag.org, which are tried before those two cookies.
C5_CookieShortcut ==
    (HeadersInspected /\ dresp.cookies # {}) =>
        /\ dreads = <<>>
        /\ DetectDone
        /\ "pubs.acs.org" \in dresp.cookies => ReturnsUrlOf("acs")
        /\ ("pubs.acs.org" \notin dresp.cookies /\ ~dresp.xfh /\ dresp.link = "none") =>
              IF ".springer.com" \in dresp.cookies
              THEN ReturnsUrlOf("springer")
              ELSE ReturnsUrlOf("tandf")

\* A Springer cookie on a page whose body has a line the table would match:
\* the Springer URL is returned and the body was not read.
C5_Witness ==
    /\ dpc = "returned"
    /\ dresp.cookies = {".springer.com"}
    /\ dresp.body # <<>>
    /\ \E i \in 1..Len(dresp.body) : FirstEntry(dresp.body[i]) # 0
    /\ ReturnsUrlOf("springer")
    /\ dreads = <<>>

NoHeaderSignal(r) == r.cookies = {} /\ ~r.xfh /\ r.link = "none"

\* Some entry of the table succeeds on the line.
LineSatisfiesTable(line) ==
    \E k \in 1..Len(publisherRegex) : EntrySucceeds(publisherRegex[k], line)

ClaimedOrder == <<"wiley", "elsevier", "tandf", "annrev", "rsc">>
EntryNamed(name) ==
    publisherRegex[CHOOSE k \in 1..Len(publisherRegex) : publisherRegex[k].name = name]

\* C7: in the body scan the outcome is fixed by the first line on which some
\* entry succeeds; on that line the first entry in the order wiley,
\* elsevier, tandf, annrev, rsc that succeeds gives the publisher; and no
\* line after it is read.
C7_FirstLineFirstEntryWins ==
    (/\ DetectDone
     /\ HeadersInspected
     /\ NoHeaderSignal(dresp)
     /\ \E i \in 1..Len(dresp.body) : LineSatisfiesTable(dresp.body[i])) =>
        LET i == CHOOSE i \in 1..Len(dresp.body) :
                    /\ LineSatisfiesTable(dresp.body[i])
                    /\ \A j \in 1..(i - 1) : ~LineSatisfiesTable(dresp.body[j])
            q == CHOOSE q \in 1..Len(ClaimedOrder) :
                    /\ EntrySucceeds(EntryNamed(ClaimedOrder[q]), dresp.body[i])
                    /\ \A j \in 1..(q - 1) :
                          ~EntrySucceeds(EntryNamed(ClaimedOrder[j]), dresp.body[i])
        IN  /\ dresult.kind = "return"
            /\ ~dresult.fail
            /\ dresult.publisher = ClaimedOrder[q]
            /\ dreads = [j \in 1..i |-> j]

\* The first line satisfies both the tandf and the annrev entry and a later
\* line the wiley entry: tandf is returned after reading one line.
C7_Witness ==
    /\ dpc = "returned"
    /\ NoHeaderSignal(dresp)
    /\ Len(dresp.body) >= 2
    /\ dresp.body[1] = BothDcLine
    /\ dresp.body[2] = WileyLine
    /\ dresult.publisher = "tandf"
    /\ dreads = <<1>>

\* C8: when the landing page request fails with a connection error, an
\* invalid URL or a content type error, detection returns a failure result
\* and no exception leaves the call.
C8_RequestErrorGivesFailure ==
    (DetectDone /\ derr \in RequestErrors) =>
        /\ dresult.kind = "return"
        /\ dresult.fail

\* C9: a landing page response with a status other than 200 makes detection
\* return a failure for that DOI, never a PDF URL, without raising.
C9_BadStatusGivesFailure ==
    (DetectDone /\ derr = NULL /\ dresp.status # 200) =>
        /\ dresult.kind = "return"
        /\ dresult.fail

(***************************************************************************)
(* The fetch: Article.register_pdf.                                        *)
(***************************************************************************)
\* A source path: a local file (absolute path), which exists or not and
\* which copy2 can or cannot copy to the destination, or a URL, which
\* contains "sciencedirect" or not.
FileSources == [type : {"file"}, sd : {FALSE}, exists : BOOLEAN, copyOk : BOOLEAN]
UrlSources == [type : {"url"}, sd : BOOLEAN, exists : {FALSE}, copyOk : {FALSE}]

\* The responses to the GET of a URL source: an HTML page with or without
\* the "window.location = '...';" line, a PDF with or without a
\* content-length header, or some other content type.
FetchResponses ==
    [ctype : {"text/html"}, redirect : BOOLEAN, haslen : {FALSE}, size : {0}]
    \cup [ctype : {"application/pdf"}, redirect : {FALSE}, haslen : BOOLEAN, size : 0..MaxBody]
    \cup [ctype : {"other"}, redirect : {FALSE}, haslen : {FALSE}, size : {0}]

\* "application/pdf" in resp.content_type
IsPdf_Unchecked(ctype) == TRUE
IsPdf(ctype) == ctype = "application/pdf"

\* The Elsevier check: "sciencedirect" in psrc, the content type is
\* text/html and a line of the text matches redirectRegex.
FollowsRedirect(src, r) == src.sd /\ r.ctype = "text/html" /\ r.redirect

\* Whether the innermost call created its session itself: the outermost
\* call does unless it was handed one, a call made for a redirect always
\* does (it is passed none).
OwnSession == fhops > 0 \/ ~fgiven

Min(a, b) == IF a <= b THEN a ELSE b

\* if not pdest.parent.exists(): pdest.parent.mkdir(parents=True) -- whether
\* the destination directory exists afterwards.
MkdirParents_Skipped(exists) == exists
MkdirParents(exists) == TRUE

\* shutil.copy2(psrc, pdest): "copied", or the exception it raises when the
\* destination directory is missing or the copy is refused.
CopyFile(src, dirExists) ==
    IF ~dirExists THEN "FileNotFoundError"
    ELSE IF src.copyOk THEN "copied"
    ELSE "PermissionError"

FetchReturn(result) ==
    /\ fresult' = result
    /\ fpc' = IF result \in {"SUCCESS", "FAILURE"} THEN "returned" ELSE "raised"

\* register_pdf up to its first await: the destination directory is made,
\* a local file is copied, or a session is set up for the request.
FetchCall(given) ==
    /\ fpc = "idle"
    /\ \E src \in FileSources \cup UrlSources :
          /\ src.type = "file" => ~given
          /\ fsrc' = src
          /\ fgiven' = given
          /\ fdirBefore' = destDir
          /\ destDir' = MkdirParents(destDir)
          /\ IF src.type = "file"
             THEN /\ IF ~src.exists
                     THEN /\ FetchReturn("FAILURE")
                          /\ UNCHANGED <<destFile, fopens>>
                     ELSE IF CopyFile(src, destDir') = "copied"
                          THEN /\ FetchReturn("SUCCESS")
                               /\ destFile' = "new"
                               /\ fopens' = fopens + 1
                          ELSE \* shutil.copy2 raises; nothing catches it
                               /\ FetchReturn(CopyFile(src, destDir'))
                               /\ UNCHANGED <<destFile, fopens>>
                  /\ UNCHANGED <<sessOpen, sessCreated>>
             ELSE /\ fpc' = "get"
                  /\ sessOpen' = IF given THEN 0 ELSE 1
                  /\ sessCreated' = IF given THEN 0 ELSE 1
                  /\ UNCHANGED <<destFile, fopens, fresult>>
    /\ UNCHANGED <<fhops, fresp, fremaining, destBytes, fspin, fdone>>
    /\ UNCHANGED <<batchVars, detectVars, resolveVars, diffVars, spinVars, addVars, refVars, delVars, sessVars>>

\* session.get raises: InvalidURL and ClientResponseError are turned into
\* FAILURE (the return skips the closing of the session), anything else
\* leaves the call.
FetchRequestFails(err) ==
    /\ fpc = "get"
    /\ FetchReturn(IF err \in {"InvalidURL", "ClientResponseError"} THEN "FAILURE" ELSE err)
    /\ UNCHANGED <<fsrc, fgiven, fhops, sessOpen, sessCreated, fresp, fremaining,
                   destDir, destFile, destBytes, fopens, fspin, fdone, fdirBefore>>
    /\ UNCHANGED <<batchVars, detectVars, resolveVars, diffVars, spinVars, addVars, refVars, delVars, sessVars>>

\* The response arrives. An Elsevier redirect page makes the call run
\* register_pdf(newurl, type) as a task, without a session, and return that
\* task's result; a response that is not a PDF is a FAILURE; for a PDF the
\* Spinner is started and the destination opened for writing.
FetchResponse ==
    /\ fpc = "get"
    /\ \E r \in FetchResponses :
          /\ FollowsRedirect(fsrc, r) => fhops < MaxHops
          /\ IF FollowsRedirect(fsrc, r)
             THEN /\ \E sd \in BOOLEAN : fsrc' = [fsrc EXCEPT !.sd = sd]
                  /\ fhops' = fhops + 1
                  /\ sessOpen' = sessOpen + 1
                  /\ sessCreated' = sessCreated + 1
                  /\ fresp' = NoFetchResponse
                  /\ UNCHANGED <<fpc, fresult, fremaining, destFile, destBytes,
                                 fopens, fspin, fdone>>
             ELSE /\ fresp' = r
                  /\ IF ~IsPdf(r.ctype)
                     THEN /\ FetchReturn("FAILURE")
                          /\ UNCHANGED <<fremaining, destFile, destBytes, fopens,
                                         fspin, fdone>>
                     ELSE /\ fpc' = "streaming"
                          /\ fspin' = "running"
                          /\ fdone' = 0
                          /\ destFile' = "new"
                          /\ destBytes' = 0
                          /\ fopens' = fopens + 1
                          /\ fremaining' = r.size
                          /\ UNCHANGED fresult
                  /\ UNCHANGED <<fsrc, fhops, sessOpen, sessCreated>>
    /\ UNCHANGED <<fgiven, destDir, fdirBefore>>
    /\ UNCHANGED <<batchVars, detectVars, resolveVars, diffVars, spinVars, addVars, refVars, delVars, sessVars>>

\* One turn of the streaming loop: resp.content.read(chunk_size) returns up
\* to chunk_size bytes, they are written, and with a known file size the
\* Spinner is incremented by chunk_size.
FetchChunk(n) ==
    /\ fpc = "streaming"
    /\ fremaining > 0
    /\ n <= Min(ChunkSize, fremaining)
    /\ destBytes' = destBytes + n
    /\ fremaining' = fremaining - n
    /\ fdone' = IF fresp.haslen THEN fdone + ChunkSize ELSE fdone
    /\ UNCHANGED <<fpc, fsrc, fgiven, fhops, sessOpen, sessCreated, fresp, destDir,
                   destFile, fopens, fspin, fresult, fdirBefore>>
    /\ UNCHANGED <<batchVars, detectVars, resolveVars, diffVars, spinVars, addVars, refVars, delVars, sessVars>>

\* The read returns no more bytes: the file and the Spinner are closed, the
\* call closes the session it created and returns SUCCESS.
FetchEof ==
    /\ fpc = "streaming"
    /\ fremaining = 0
    /\ fspin' = "done"
    /\ sessOpen' = IF OwnSession THEN sessOpen - 1 ELSE sessOpen
    /\ FetchReturn("SUCCESS")
    /\ UNCHANGED <<fsrc, fgiven, fhops, sessCreated, fresp, fremaining, destDir,
                   destFile, destBytes, fopens, fdone, fdirBefore>>
    /\ UNCHANGED <<batchVars, detectVars, resolveVars, diffVars, spinVars, addVars, refVars, delVars, sessVars>>

\* No fetch under way; the destination directory may be missing, or it may
\* already hold a file for the DOI.
InitFetch ==
    /\ SessIdle
    /\ DeleteIdle
    /\ RefIdle
    /\ AddIdle
    /\ SpinIdle
    /\ articleList = [i \in 1..NArticles |-> [doi |-> i, title |-> "T0"]]
    /\ BatchIdle
    /\ DetectIdle
    /\ ResolveIdle
    /\ DiffIdle
    /\ FetchQuiet
    /\ destDir \in BOOLEAN
    /\ destFile \in {"absent", "old"}
    /\ destFile = "old" => destDir

NextFetch ==
    \/ \E given \in BOOLEAN : FetchCall(given)
    \/ \E err \in {"InvalidURL", "ClientResponseError", "ClientConnectorError"} :
          FetchRequestFails(err)
    \/ FetchResponse
    \/ \E n \in 1..ChunkSize : FetchChunk(n)
    \/ FetchEof

SpecFetch == InitFetch /\ [][NextFetch]_vars

(***************************************************************************)
(* Claims about the fetch.                                                 *)
(***************************************************************************)
FetchDone == fpc \in {"returned", "raised"}

\* C10: a URL fetch whose response is text/html without the redirect snippet
\* returns FAILURE, and the call neither creates nor writes the destination
\* file.
C10_HtmlIsFailure ==
    (/\ FetchDone
     /\ fsrc.type = "url"
     /\ fresp.ctype = "text/html"
     /\ ~fresp.redirect) =>
        /\ fresult = "FAILURE"
        /\ fopens = 0
        /\ destBytes = 0
        /\ destFile # "new"

\* A sciencedirect URL answered by an HTML page without the snippet, with no
\* destination file before: FAILURE, and still no destination file.
C10_Witness ==
    /\ fpc = "returned"
    /\ fresult = "FAILURE"
    /\ fsrc.type = "url"
    /\ fsrc.sd
    /\ fhops = 0
    /\ fresp.ctype = "text/html"
    /\ ~fresp.redirect
    /\ destFile = "absent"

\* C11: a fetch follows at most one redirect hop: a page reached through a
\* redirect that is itself a redirect page is not followed again.
C11_AtMostOneHop == fhops <= 1

\* C12: a fetch that was handed the shared session makes every request,
\* the one after a redirect included, through it and creates no session of
\* its own.
C12_OnlySharedSession == fgiven => sessCreated = 0

\* C13: fetching an existing, readable local file to a destination whose
\* directory does not exist yet creates the directory, copies the file and
\* returns SUCCESS.
C13_LocalCopyCreatesTree ==
    (/\ FetchDone
     /\ fsrc.type = "file"
     /\ fsrc.exists
     /\ fsrc.copyOk
     /\ ~fdirBefore) =>
        /\ fresult = "SUCCESS"
        /\ destDir
        /\ destFile = "new"

\* A local file was copied into a directory that was missing at the call.
C13_Witness ==
    /\ fpc = "returned"
    /\ fresult = "SUCCESS"
    /\ fsrc.type = "file"
    /\ fsrc.exists
    /\ ~fdirBefore
    /\ destDir
    /\ destFile = "new"
    /\ fopens = 1

\* C14: when the source file exists but the copy fails, the fetch returns
\* FAILURE and no exception leaves it.
C14_CopyFailureIsFailure ==
    (/\ FetchDone
     /\ fsrc.type = "file"
     /\ fsrc.exists
     /\ ~fsrc.copyOk) =>
        /\ fpc = "returned"
        /\ fresult = "FAILURE"

(***************************************************************************)
(* The Crossref lookup: DOI.to_article_cr and doi_to_article_cr.           *)
(***************************************************************************)
\* A name is a sequence of pieces of text: the pieces "." and " " are those
\* characters, "<fi>" is the ligature U+FB01, any other piece is a run of
\* letters.
GivenInitials == <<"J", ".", "R", ".", "J", ".">>
GivenFull == <<"Jonathan">>

\* An author is [family, given]: the family name, and the given name as a
\* value that may be missing.
\* The authors a response is made of: one with initials, one whose family
\* name holds a ligature, one with no "given" key (an organisation).
ResponseAuthors ==
    {[family |-> <<"Yong">>, given |-> <<GivenInitials>>],
     [family |-> <<"Scho", "<fi>", "eld">>, given |-> <<GivenFull>>],
     [family |-> <<"Consortium">>, given |-> <<>>]}

AuthorLists == UNION {[1..n -> ResponseAuthors] : n \in 0..MaxAuthors}

\* The "message" of a JSON response; a key that is missing is <<>>, a list
\* value is a sequence (container-title, short-container-title and title
\* are lists of at most one string here).
Messages ==
    [author : Opt(AuthorLists),
     print : Opt({"2020"}),
     online : Opt({"2019"}),
     container : Opt(Opt({"The Journal of Chemical Physics"})),
     short : Opt(Opt({"J. Chem. Phys.", "Magn Reson Chem"})),
     title : Opt(Opt({"Example", "The .alpha. effect"})),
     volume : Opt({"12", "12-13"}),
     issue : Opt({"3"}),
     page : Opt({"1-10"})]

\* What the registry answers: a body whose content type is not JSON, a
\* body declared as JSON that does not parse, a JSON object without the
\* "message" key, or a JSON object with a message.
RegistryResponses ==
    {[kind |-> "nonjson"], [kind |-> "badjson"], [kind |-> "nomessage"]}
    \cup {[kind |-> "message", d |-> d] : d \in Messages}

\* str.replace(old, new) on a sequence of pieces: the non-overlapping
\* occurrences of old, from the left.
RECURSIVE Replace(_, _, _)
Replace(s, old, new) ==
    IF Len(s) < Len(old) THEN s
    ELSE IF SubSeq(s, 1, Len(old)) = old
         THEN new \o Replace(SubSeq(s, Len(old) + 1, Len(s)), old, new)
         ELSE <<Head(s)>> \o Replace(Tail(s), old, new)

\* str.rstrip(): trailing blanks removed.
RECURSIVE Rstrip(_)
Rstrip(s) ==
    IF s # <<>> /\ s[Len(s)] = " " THEN Rstrip(SubSeq(s, 1, Len(s) - 1)) ELSE s

\* unicodedata.normalize("NFKC", s): the ligature becomes its two letters.
Normalize(s) == Replace(s, <<"<fi>">>, <<"f", "i">>)

\* auth["given"].replace(". ", ".").replace(".", ". ").rstrip()
SpaceInitials(given) ==
    Rstrip(Replace(Replace(given, <<".", " ">>, <<".">>), <<".">>, <<".", " ">>))

\* The list comprehension over d["author"], in the order of the response.
AuthorsOf_Reversed(authors) ==
    [i \in 1..Len(authors) |->
        [family |-> Normalize(authors[Len(authors) + 1 - i].family),
         given |-> <<Normalize(SpaceInitials(authors[Len(authors) + 1 - i].given[1]))>>]]
AuthorsOf(authors) ==
    [i \in 1..Len(authors) |->
        [family |-> Normalize(authors[i].family),
         given |-> <<Normalize(SpaceInitials(authors[i].given[1]))>>]]

\* int(x) succeeds on a numeral and raises ValueError on a range.
Numerals == {"2019", "2020", "12", "3"}

\* int(d[key]) with the KeyError and ValueError handlers of volume and
\* issue: the number, the string itself for a range, and for a missing key
\* None (to_article_cr leaves the field) or "" (doi_to_article_cr).
NumberOrText(impl, opt) ==
    IF opt = <<>> THEN (IF impl = "cls" THEN PyNone ELSE PyStr(""))
    ELSE IF opt[1] \in Numerals THEN PyInt(opt[1])
    ELSE PyStr(opt[1])

\* _g.journalReplacements, restricted to the names of the model.
JournalReplacements(name) ==
    IF name = "Magn Reson Chem" THEN "Magn. Reson. Chem."
    ELSE IF name = "The Journal of Chemical Physics" THEN "J. Chem. Phys."
    ELSE name

\* The replacement of ".alpha." by the Greek letter, on the titles of the
\* model.
Greek2Unicode(title) ==
    IF title = "The .alpha. effect" THEN "The <alpha> effect" ELSE title

\* The first exception the statements of the else block raise on message
\* d, in the order they run, or NULL when they all succeed.
FirstError(d) ==
    IF d.author = <<>> THEN "KeyError"
    ELSE IF \E i \in 1..Len(d.author[1]) : d.author[1][i].given = <<>> THEN "KeyError"
    ELSE IF d.print = <<>> /\ d.online = <<>> THEN "KeyError"
    ELSE IF d.container = <<>> THEN "KeyError"
    ELSE IF d.container[1] = <<>> THEN "IndexError"
    ELSE IF d.title = <<>> THEN "KeyError"
    ELSE IF d.title[1] = <<>> THEN "IndexError"
    ELSE NULL

\* The Article the else block builds from message d when nothing raises.
Populate(impl, doi, d) ==
    LET long == d.container[1][1]
        short == IF d.short = <<>> \/ d.short[1] = <<>> THEN long ELSE d.short[1][1]
    IN  [Article(doi) EXCEPT
            !.authors = <<AuthorsOf(d.author[1])>>,
            !.year = PyInt(IF d.print # <<>> THEN d.print[1] ELSE d.online[1]),
            !.journal_long = PyStr(long),
            !.journal_short = PyStr(JournalReplacements(short)),
            !.title = PyStr(Greek2Unicode(d.title[1][1])),
            !.volume = NumberOrText(impl, d.volume),
            !.issue = NumberOrText(impl, d.issue),
            !.pages = IF d.page # <<>> THEN PyStr(d.page[1])
                      ELSE IF impl = "cls" THEN PyNone ELSE PyStr("")]

\* The exception resp.json() or the else block raises on a response whose
\* content type is JSON, or NULL: no handler matches any of them.
UncaughtError(r) ==
    IF r.kind = "badjson" THEN "JSONDecodeError"
    ELSE IF r.kind = "nomessage" THEN "KeyError"
    ELSE FirstError(r.d)

\* The exception that leaves the call on response r, or NULL: only
\* ContentTypeError (the content type is not JSON) is caught.
ResolveError_Uncaught(r) ==
    IF r.kind = "nonjson" THEN "ContentTypeError" ELSE UncaughtError(r)
ResolveError(r) ==
    IF r.kind = "nonjson" THEN NULL ELSE UncaughtError(r)

TheDoi == PyStr("10.1021/xyz")

\* The call up to its first await: the session is taken or created and the
\* GET of the works URL is issued.
ResolveCall(impl, given) ==
    /\ rpc = "idle"
    /\ rimpl' = impl
    /\ rgiven' = given
    /\ rsessOpen' = IF given THEN 0 ELSE 1
    /\ rpc' = "get"
    /\ UNCHANGED <<rresp, rarticle, rexc>>
    /\ UNCHANGED <<batchVars, detectVars, fetchVars, diffVars, spinVars, addVars, refVars, delVars, sessVars>>

\* The finally block: a session the call created is closed.
SessionsAfterFinally(given, open) == IF given THEN open ELSE 0

\* session.get raises: no handler matches a transport error, the finally
\* block runs and the exception leaves the call.
ResolveRequestFails(err) ==
    /\ rpc = "get"
    /\ rexc' = err
    /\ rpc' = "raised"
    /\ rsessOpen' = SessionsAfterFinally(rgiven, rsessOpen)
    /\ UNCHANGED <<rimpl, rgiven, rresp, rarticle>>
    /\ UNCHANGED <<batchVars, detectVars, fetchVars, diffVars, spinVars, addVars, refVars, delVars, sessVars>>

\* The response arrives: resp.json(), then the handler or the else block,
\* then the finally block, then "return article" unless an exception is
\* under way.
ResolveResponse ==
    /\ rpc = "get"
    /\ \E r \in RegistryResponses :
          /\ rresp' = r
          /\ IF ResolveError(r) # NULL
             THEN /\ rexc' = ResolveError(r)
                  /\ rpc' = "raised"
                  /\ UNCHANGED rarticle
             ELSE /\ rarticle' = IF r.kind = "nonjson" THEN Article(TheDoi)
                                 ELSE Populate(rimpl, TheDoi, r.d)
                  /\ rpc' = "returned"
                  /\ UNCHANGED rexc
    /\ rsessOpen' = SessionsAfterFinally(rgiven, rsessOpen)
    /\ UNCHANGED <<rimpl, rgiven>>
    /\ UNCHANGED <<batchVars, detectVars, fetchVars, diffVars, spinVars, addVars, refVars, delVars, sessVars>>

InitResolve ==
    /\ SessIdle
    /\ DeleteIdle
    /\ RefIdle
    /\ AddIdle
    /\ SpinIdle
    /\ articleList = [i \in 1..NArticles |-> [doi |-> i, title |-> "T0"]]
    /\ BatchIdle
    /\ DetectIdle
    /\ FetchIdle
    /\ ResolveIdle
    /\ DiffIdle

NextResolve ==
    \/ \E impl \in {"cls", "art"}, given \in BOOLEAN : ResolveCall(impl, given)
    \/ \E err \in {"ClientConnectorError", "TimeoutError"} : ResolveRequestFails(err)
    \/ ResolveResponse

SpecResolve == InitResolve /\ [][NextResolve]_vars

(***************************************************************************)
(* Claims about the Crossref lookup.                                       *)
(***************************************************************************)
ResolveDone == rpc \in {"returned", "raised"}

\* The failure sentinel: the requested doi and every other field None.
IsSentinel(article) == article = Article(TheDoi)

\* C15: for a JSON response with neither a print nor an online publication
\* date the lookup returns the failure sentinel and no exception leaves it.
C15_NoDatesGivesSentinel ==
    (/\ ResolveDone
     /\ rresp.kind = "message"
     /\ rresp.d.print = <<>>
     /\ rresp.d.online = <<>>) =>
        /\ rpc = "returned"
        /\ IsSentinel(rarticle)

WellFormed(d) ==
    /\ d.author # <<>>
    /\ \A i \in 1..Len(d.author[1]) : d.author[1][i].given # <<>>
    /\ d.print # <<>> \/ d.online # <<>>
    /\ d.container # <<>> /\ d.container[1] # <<>>
    /\ d.title # <<>> /\ d.title[1] # <<>>

Attribs ==
    <<"authors", "doi", "issue", "journal_long", "journal_short", "pages",
      "title", "volume", "year">>

\* Article.__eq__: the attributes are compared one by one, except for
\* time_added and time_opened.
ArticleEq_WithTimes(self, other) == self = other
ArticleEq(self, other) ==
    /\ self.title = other.title
    /\ self.authors = other.authors
    /\ self.journal_long = other.journal_long
    /\ self.journal_short = other.journal_short
    /\ self.year = other.year
    /\ self.volume = other.volume
    /\ self.issue = other.issue
    /\ self.pages = other.pages
    /\ self.doi = other.doi

\* format_one_author(author, "full"): the family name alone when there is
\* no given name, else given + " " + family.
FormatFull(author) ==
    IF author.given = <<>> THEN author.family
    ELSE author.given[1] \o <<" ">> \o author.family

\* ", ".join(names)
RECURSIVE Join(_)
Join(names) ==
    IF names = <<>> THEN <<>>
    ELSE IF Len(names) = 1 THEN names[1]
    ELSE names[1] \o <<", ">> \o Join(Tail(names))

\* old_value / new_value of the loop: <<>> for None, else <<value>>; the
\* authors are rendered into one string first.
AttribValue(article, attrib) ==
    IF attrib = "authors"
    THEN IF article.authors = <<>> THEN <<>>
         ELSE <<Join([i \in 1..Len(article.authors[1]) |->
                         FormatFull(article.authors[1][i])])>>
    ELSE IF article[attrib] = PyNone THEN <<>> ELSE <<article[attrib]>>

\* The test of the loop body: the attribute is shown as unchanged.
ShownUnchanged(old_value, new_value) == old_value # <<>> /\ old_value = new_value

\* The lines one turn of the loop prints: the unchanged value, or the old
\* value with "-" and the new one with "+", whichever are not None; the
\* attribute name is left out of the second line.
LinesOf(attrib, old_value, new_value) ==
    IF ShownUnchanged(old_value, new_value)
    THEN <<[attrib |-> attrib, sign |-> " ", value |-> old_value[1]]>>
    ELSE (IF old_value # <<>>
          THEN <<[attrib |-> attrib, sign |-> "-", value |-> old_value[1]]>>
          ELSE <<>>)
         \o (IF new_value # <<>>
             THEN <<[attrib |-> IF old_value # <<>> THEN "" ELSE attrib,
                     sign |-> "+", value |-> new_value[1]]>>
             ELSE <<>>)

\* The loop over attribs from index i on: the count and the lines.
RECURSIVE DiffLoop(_, _, _)
DiffLoop(self, other, i) ==
    IF i > Len(Attribs) THEN [ndiffs |-> 0, printed |-> <<>>]
    ELSE LET old_value == AttribValue(self, Attribs[i])
             new_value == AttribValue(other, Attribs[i])
             rest == DiffLoop(self, other, i + 1)
         IN  [ndiffs |-> rest.ndiffs
                         + (IF ShownUnchanged(old_value, new_value) THEN 0 ELSE 1),
              printed |-> LinesOf(Attribs[i], old_value, new_value) \o rest.printed]

\* Article.diff: 0 and nothing printed for equal records, else the loop.
Diff(self, other) ==
    IF ArticleEq(self, other) THEN [ndiffs |-> 0, printed |-> <<>>]
    ELSE DiffLoop(self, other, 1)

\* The records compared: the fields of a stored or fetched record, some of
\* them unset, an empty issue, and two author lists that render alike.
AuthorYong == [family |-> <<"Yong">>, given |-> << <<"Jonathan">> >>]
AuthorNoGiven == [family |-> <<"Jonathan", " ", "Yong">>, given |-> <<>>]

Records(times_added, times_opened) ==
    [title : {PyNone, PyStr("Example")},
     authors : {<<>>, << <<AuthorYong>> >>, << <<AuthorNoGiven>> >>},
     journal_long : {PyStr("The Journal of Chemical Physics")},
     journal_short : {PyStr("J. Chem. Phys.")},
     year : {PyInt("2020"), PyInt("2021")},
     volume : {PyNone, PyInt("12")},
     issue : {PyNone, PyStr("")},
     pages : {PyNone, PyStr("1-10")},
     doi : {TheDoi},
     time_added : times_added,
     time_opened : times_opened]

\* old.diff(new) is called and returns.
ArticleDiff ==
    /\ diffpc = "idle"
    /\ diffpc' = "done"
    /\ ndiffs' = Diff(diffSelf, diffOther).ndiffs
    /\ printed' = Diff(diffSelf, diffOther).printed
    /\ UNCHANGED <<diffSelf, diffOther>>
    /\ UNCHANGED <<batchVars, detectVars, fetchVars, resolveVars, spinVars, addVars, refVars, delVars, sessVars>>

InitDiff ==
    /\ SessIdle
    /\ DeleteIdle
    /\ RefIdle
    /\ AddIdle
    /\ SpinIdle
    /\ articleList = [i \in 1..NArticles |-> [doi |-> i, title |-> "T0"]]
    /\ BatchIdle
    /\ DetectIdle
    /\ FetchIdle
    /\ ResolveIdle
    /\ diffpc = "idle"
    /\ diffSelf \in Records({PyStr("t1")}, {PyNone, PyStr("t3")})
    /\ diffOther \in Records({PyStr("t1"), PyStr("t2")}, {PyNone, PyStr("t3")})
    /\ ndiffs = 0
    /\ printed = <<>>

NextDiff == ArticleDiff

SpecDiff == InitDiff /\ [][NextDiff]_vars

(***************************************************************************)
(* Claims about the comparison.                                            *)
(***************************************************************************)
\* The fields diff compares: all but time_added and time_opened.
Compared ==
    {"title", "authors", "journal_long", "journal_short", "year", "volume",
     "issue", "pages", "doi"}

DifferingFields == {f \in Compared : diffSelf[f] # diffOther[f]}

\* C18: for two records that agree on every field other than time_added
\* and time_opened, diff returns 0 and prints nothing, whatever the
\* timestamps and also when fields are None.
C18_EqualRecordsNoDiff ==
    (diffpc = "done" /\ DifferingFields = {}) =>
        /\ ndiffs = 0
        /\ printed = <<>>

\* Two records with unset fields that differ in both timestamps only.
C18_Witness ==
    /\ diffpc = "done"
    /\ DifferingFields = {}
    /\ diffSelf.time_added # diffOther.time_added
    /\ diffSelf.time_opened # diffOther.time_opened
    /\ diffSelf.issue = PyNone
    /\ diffSelf.authors = <<>>
    /\ ndiffs = 0
    /\ printed = <<>>

\* C19: the count diff returns is the number of compared fields whose
\* values differ between the two records; it is 1 when exactly one field
\* differs, whether the other fields hold values or are unset on both
\* sides.
C19_CountIsDifferingFields ==
    diffpc = "done" => ndiffs = Cardinality(DifferingFields)

(***************************************************************************)
(* Claims about the replacement of stored records by cli_update.           *)
(***************************************************************************)
\* The triple the presentation loop is at.
Presented == triples[ppos]

C25_OwnSessionsClosed == FetchDone => sessOpen = 0

\* C26: with a known content-length the progress counter never exceeds the
\* announced total, and after a successful download it equals the number
\* of bytes written to the destination.
C26_ProgressMatchesBytes ==
    (fsrc.type = "url" /\ fresp.ctype = "application/pdf" /\ fresp.haslen) =>
        /\ fdone <= fresp.size
        /\ (fpc = "returned" /\ fresult = "SUCCESS") => fdone = destBytes

\* C30: a fetch from a local path that fails because the source file does
\* not exist creates neither the destination file nor a destination
\* directory.
C30_MissingSourceLeavesTree ==
    (FetchDone /\ fsrc.type = "file" /\ ~fsrc.exists) =>
        /\ fresult = "FAILURE"
        /\ fopens = 0
        /\ destDir = fdirBefore

(***************************************************************************)
(* Operations that show a spinner.                                         *)
(*                                                                         *)
(* Two styles are in use.  "with" is the context manager Spinner           *)
(* (peepspin.py, peepcls.py:830-899; used by cli_add, cli_update and       *)
(* register_pdf).  "task" is asyncio.create_task(_spinner(...)) followed   *)
(* by spin.cancel(); await asyncio.sleep(0) (fetchPDF, savePDF).           *)
(***************************************************************************)
\* Frames the spinner writes before the model stops counting them, and the
\* total of the progress counter.
MaxFrames == 2
SpinTotal == 2

SpinStyles == {"with", "task"}
SpinOutcomes == {"normal", "failure", "exception"}

OperationOver == sppc \in {"returned", "failed", "raised"}

\* Where the operation ends up for each way its body ended.
SpinFinalPc(outcome) ==
    CASE outcome = "normal" -> "returned"
      [] outcome = "failure" -> "failed"
      [] outcome = "exception" -> "raised"

\* Spinner.__aenter__, or asyncio.create_task(_spinner(...)): the spinner
\* task is created and the body of the operation begins.
SpinnerStart(style) ==
    /\ sppc = "idle"
    /\ spstyle' = style
    /\ sppc' = "body"
    /\ sptask' = "created"
    /\ UNCHANGED <<spoutcome, spcancel, spdone, spframes, splate>>
    /\ UNCHANGED <<batchVars, detectVars, fetchVars, resolveVars, diffVars, addVars, refVars, delVars, sessVars>>

\* One turn of the spinner's loop: it writes a frame and sleeps.  The event
\* loop runs it whenever the operation is suspended, which includes the time
\* after the operation has ended while the task is still alive.
SpinnerRun ==
    /\ sptask \in {"created", "running"}
    /\ ~spcancel
    /\ spframes < MaxFrames
    /\ sptask' = "running"
    /\ spframes' = spframes + 1
    /\ splate' = IF OperationOver THEN splate + 1 ELSE splate
    /\ UNCHANGED <<spstyle, sppc, spoutcome, spcancel, spdone>>
    /\ UNCHANGED <<batchVars, detectVars, fetchVars, resolveVars, diffVars, addVars, refVars, delVars, sessVars>>

\* spinner.increment(inc) / prog.incr() in the body.
SpinnerIncrement ==
    /\ sppc = "body"
    /\ spdone < SpinTotal
    /\ spdone' = spdone + 1
    /\ UNCHANGED <<spstyle, sppc, spoutcome, sptask, spcancel, spframes, splate>>
    /\ UNCHANGED <<batchVars, detectVars, fetchVars, resolveVars, diffVars, addVars, refVars, delVars, sessVars>>

\* The body of an "async with Spinner" block ends in any way: __aexit__
\* runs, cancels the task and waits for it.
SpinnerAexit(outcome) ==
    /\ sppc = "body"
    /\ spstyle = "with"
    /\ spoutcome' = outcome
    /\ spcancel' = TRUE
    /\ sppc' = "exit"
    /\ UNCHANGED <<spstyle, sptask, spdone, spframes, splate>>
    /\ UNCHANGED <<batchVars, detectVars, fetchVars, resolveVars, diffVars, addVars, refVars, delVars, sessVars>>

\* The body of fetchPDF / savePDF between create_task and spin.cancel().
\* When it ends normally, spin.cancel() and await asyncio.sleep(0) follow;
\* an exception raised by an awaited coroutine or by the streaming leaves
\* the function at once, past the two statements.
TaskSpinnerBodyEnds(outcome) ==
    /\ sppc = "body"
    /\ spstyle = "task"
    /\ outcome \in {"normal", "exception"}
    /\ spoutcome' = outcome
    /\ IF outcome = "normal"
         THEN /\ spcancel' = TRUE
              /\ sppc' = "exit"
         ELSE /\ spcancel' = FALSE
              /\ sppc' = SpinFinalPc(outcome)
    /\ UNCHANGED <<spstyle, sptask, spdone, spframes, splate>>
    /\ UNCHANGED <<batchVars, detectVars, fetchVars, resolveVars, diffVars, addVars, refVars, delVars, sessVars>>

\* The cancelled task: a task that never ran is simply dropped, one that is
\* asleep in its loop gets CancelledError, writes its final line and ends.
SpinnerCancelled ==
    /\ spcancel
    /\ sptask \in {"created", "running"}
    /\ sptask' = "done"
    /\ spframes' = IF sptask = "running" THEN spframes + 1 ELSE spframes
    /\ UNCHANGED <<spstyle, sppc, spoutcome, spcancel, spdone, splate>>
    /\ UNCHANGED <<batchVars, detectVars, fetchVars, resolveVars, diffVars, addVars, refVars, delVars, sessVars>>

\* "await self.task" in __aexit__, or the turn of the event loop that
\* "await asyncio.sleep(0)" gives away, is over once the cancelled task has
\* ended; the operation then leaves.
OperationReturns ==
    /\ sppc = "exit"
    /\ sptask = "done"
    /\ sppc' = SpinFinalPc(spoutcome)
    /\ UNCHANGED <<spstyle, spoutcome, sptask, spcancel, spdone, spframes, splate>>
    /\ UNCHANGED <<batchVars, detectVars, fetchVars, resolveVars, diffVars, addVars, refVars, delVars, sessVars>>

InitSpinner ==
    /\ SessIdle
    /\ DeleteIdle
    /\ RefIdle
    /\ AddIdle
    /\ articleList = [i \in 1..NArticles |-> [doi |-> i, title |-> "T0"]]
    /\ BatchIdle
    /\ DetectIdle
    /\ FetchIdle
    /\ ResolveIdle
    /\ DiffIdle
    /\ SpinIdle

NextSpinner ==
    \/ \E style \in SpinStyles : SpinnerStart(style)
    \/ SpinnerRun
    \/ SpinnerIncrement
    \/ \E outcome \in SpinOutcomes : SpinnerAexit(outcome)
    \/ \E outcome \in SpinOutcomes : TaskSpinnerBodyEnds(outcome)
    \/ SpinnerCancelled
    \/ OperationReturns

SpecSpinner == InitSpinner /\ [][NextSpinner]_vars

\* C21: when an operation that shows a spinner has ended (normally, by a
\* failure return or by an exception), its spinner task has terminated, and
\* the spinner has written nothing after the operation ended.
C21_SpinnerEndedWithOperation ==
    OperationOver => (sptask = "done" /\ splate = 0)

(***************************************************************************)
(* cli_add (commands.py:392-469).                                          *)
(***************************************************************************)
\* Longest argument list given to one command, and the longest library the
\* model lets the commands build.
MaxArgs == 2
MaxLibrary == 4

Dois == 1..NArticles

\* The batch variables other than the article list and the pending changes.
BatchRest ==
    <<refnos, old_articles, new_articles, triples, ipc, ires, doneq, bpc, ppos,
      yes, spinTask, spinDone>>

ArgLists == UNION {[1..n -> Dois] : n \in 0..MaxArgs}

Repeat(x, n) == [i \in 1..n |-> x]

\* for refno, article in enumerate(_g.articleList): if doi == article.doi
InLibrary(doi) == \E i \in 1..Len(articleList) : articleList[i].doi = doi

\* The DOIs of args that are not in the library, in the order given; a DOI
\* given twice is kept twice.
NewDois(args) == SelectSeq(args, LAMBDA d : ~InLibrary(d))

\* The answers the prompt counts as acceptance.
Accepting == {"", "y", "yes"}

\* _sort.sort() in the time_added mode: list.sort is stable, in both
\* directions.
SortLibrary(list, reverse) ==
    StableSort(list, [k \in 1..Len(list) |->
                         IF reverse THEN 0 - list[k].time_added
                                    ELSE list[k].time_added])

\* Argument parsing of cli_add: DOIs already in the library are reported and
\* counted as failed, the others are queued for lookup.
AddCall(args) ==
    /\ addpc \in {"idle", "returned"}
    /\ Len(articleList) + Len(args) <= MaxLibrary
    /\ LET new == NewDois(args)
       IN  /\ addArgs' = args
           /\ dois' = new
           /\ addNo' = Len(args) - Len(new)
           /\ addpc' = IF new = <<>> THEN "returned" ELSE "lookup"
    /\ addYes' = 0
    /\ articles' = <<>>
    /\ addpos' = 0
    /\ UNCHANGED <<articleList, changes, now, sortReverse>>
    /\ UNCHANGED BatchRest
    /\ UNCHANGED <<detectVars, fetchVars, resolveVars, diffVars, spinVars, refVars, delVars, sessVars>>

\* The lookups under the spinner: asyncio.as_completed delivers the articles
\* in any order; a lookup that failed gives an article without a title.
AddLookup ==
    /\ addpc = "lookup"
    /\ \E order \in Permutations(1..Len(dois)), valid \in [1..Len(dois) -> BOOLEAN] :
          articles' = [k \in 1..Len(dois) |->
                          [doi |-> dois[order[k]],
                           title |-> IF valid[k] THEN "T1" ELSE NULL,
                           time_added |-> 0]]
    /\ addpc' = "present"
    /\ addpos' = 1
    /\ UNCHANGED <<addArgs, dois, addYes, addNo, now, sortReverse>>
    /\ UNCHANGED <<articleList, changes>>
    /\ UNCHANGED BatchRest
    /\ UNCHANGED <<detectVars, fetchVars, resolveVars, diffVars, spinVars, refVars, delVars, sessVars>>

\* One turn of "for article in articles": an article without a title is
\* counted as failed; otherwise the user is asked and, on acceptance, the
\* article is appended.  After the last article the command records its
\* changes, sorts the library and returns.
AddPresent(ans) ==
    /\ addpc = "present"
    /\ LET art == articles[addpos]
           accepted == art.title # NULL /\ ans \in Accepting
           appended == IF accepted
                       THEN Append(articleList, [art EXCEPT !.time_added = now + 1])
                       ELSE articleList
           yes1 == IF accepted THEN addYes + 1 ELSE addYes
           last == addpos = Len(articles)
       IN  /\ art.title = NULL => ans = "n"
           /\ now' = IF accepted THEN now + 1 ELSE now
           /\ addYes' = yes1
           /\ addNo' = IF accepted THEN addNo ELSE addNo + 1
           /\ articleList' = IF last THEN SortLibrary(appended, sortReverse)
                                     ELSE appended
           /\ changes' = IF last THEN changes \o Repeat("add", yes1) ELSE changes
           /\ addpc' = IF last THEN "returned" ELSE "present"
           /\ addpos' = IF last THEN addpos ELSE addpos + 1
    /\ UNCHANGED <<addArgs, dois, articles, sortReverse>>
    /\ UNCHANGED BatchRest
    /\ UNCHANGED <<detectVars, fetchVars, resolveVars, diffVars, spinVars, refVars, delVars, sessVars>>

\* Libraries the commands start from: no two entries share a DOI, and the
\* entries are in the order of the active sort.
InitAdd ==
    /\ SessIdle
    /\ DeleteIdle
    /\ RefIdle
    /\ DetectIdle
    /\ FetchIdle
    /\ ResolveIdle
    /\ DiffIdle
    /\ SpinIdle
    /\ refnos = <<>>
    /\ old_articles = <<>>
    /\ new_articles = <<>>
    /\ triples = <<>>
    /\ ipc = [k \in Items |-> "none"]
    /\ ires = [k \in Items |-> NoResult]
    /\ doneq = <<>>
    /\ bpc = "idle"
    /\ ppos = 0
    /\ yes = 0
    /\ changes = <<>>
    /\ spinTask = "none"
    /\ spinDone = 0
    /\ sortReverse \in BOOLEAN
    /\ \E n \in 0..1, d \in Dois :
          /\ articleList = [i \in 1..n |-> [doi |-> d, title |-> "T0", time_added |-> i]]
          /\ now = n
    /\ addpc = "idle"
    /\ addArgs = <<>>
    /\ dois = <<>>
    /\ articles = <<>>
    /\ addpos = 0
    /\ addYes = 0
    /\ addNo = 0

NextAdd ==
    \/ \E args \in ArgLists : AddCall(args)
    \/ AddLookup
    \/ \E ans \in {"y", "n"} : AddPresent(ans)

SpecAdd == InitAdd /\ [][NextAdd]_vars

\* C22: no two records of the article list have the same DOI, whatever add
\* commands were given, also when one command names the same new DOI twice
\* and both prompts are accepted.
C22_NoDuplicateDoi ==
    \A i, j \in 1..Len(articleList) :
        i # j => articleList[i].doi # articleList[j].doi

(***************************************************************************)
(* parse_refnos (commands.py:1051-1114).                                   *)
(*                                                                         *)
(* An argument is a sequence of characters.  The words "all" and "last"    *)
(* are single symbols of the alphabet: like the letter "x" they are not    *)
(* digits, and an item equals the word only when it is that one symbol.    *)
(***************************************************************************)
\* Longest argument.
MaxTokenLen == 3

Digits == {"0", "1", "2"}
Chars == Digits \cup {"-", ",", "x", "all", "last"}

TokensUpTo(n) == UNION {[1..m -> Chars] : m \in 0..n}

\* The argument lists parse_refnos is given: one argument, or two short ones.
RefArgLists ==
    {<<t>> : t \in TokensUpTo(MaxTokenLen)}
    \cup {<<t, u>> : t \in TokensUpTo(1), u \in TokensUpTo(1)}

\* ','.join(args)
RECURSIVE JoinArgs(_)
JoinArgs(args) ==
    IF args = <<>> THEN <<>>
    ELSE IF Len(args) = 1 THEN args[1]
    ELSE args[1] \o <<",">> \o JoinArgs(Tail(args))

\* s.split(c)
RECURSIVE SplitOn(_, _)
SplitOn(s, c) ==
    IF \A k \in 1..Len(s) : s[k] # c THEN <<s>>
    ELSE LET k == CHOOSE k \in 1..Len(s) :
                      s[k] = c /\ \A j \in 1..(k - 1) : s[j] # c
         IN  <<SubSeq(s, 1, k - 1)>> \o SplitOn(SubSeq(s, k + 1, Len(s)), c)

\* int(t): ValueError unless t is a non-empty run of digits.
IsInt(t) == Len(t) > 0 /\ \A k \in 1..Len(t) : t[k] \in Digits

DigitValue(c) == CASE c = "0" -> 0 [] c = "1" -> 1 [] c = "2" -> 2

RECURSIVE IntOf(_)
IntOf(t) ==
    IF Len(t) = 0 THEN 0
    ELSE 10 * IntOf(SubSeq(t, 1, Len(t) - 1)) + DigitValue(t[Len(t)])

Outcome(kind, type, value, exc) ==
    [kind |-> kind, type |-> type, value |-> value, exc |-> exc]

\* One item of strs: skipped, a ValueError, the early "return _ret.FAILURE",
\* or the numbers it adds to refnos.
ParseItem(i) ==
    IF i = <<>> THEN [kind |-> "skip", nums |-> {}]
    ELSE IF \E k \in 1..Len(i) : i[k] = "-"
    THEN LET parts == SplitOn(i, "-")
         IN  IF Len(parts) # 2 \/ ~IsInt(parts[1]) \/ ~IsInt(parts[2])
             THEN [kind |-> "ValueError", nums |-> {}]
             ELSE LET rmin == IntOf(parts[1])
                      rmax == IntOf(parts[2])
                  IN  IF rmin >= rmax
                      THEN [kind |-> "failure", nums |-> {}]
                      ELSE [kind |-> "nums", nums |-> rmin..rmax]
    ELSE IF IsInt(i) THEN [kind |-> "nums", nums |-> {IntOf(i)}]
    ELSE [kind |-> "ValueError", nums |-> {}]

\* The loop over strs: the first item that fails decides.
RECURSIVE ParseItems(_, _)
ParseItems(strs, acc) ==
    IF strs = <<>> THEN [kind |-> "nums", nums |-> acc]
    ELSE LET r == ParseItem(strs[1])
         IN  IF r.kind \in {"ValueError", "failure"} THEN r
             ELSE ParseItems(Tail(strs), acc \cup r.nums)

\* max(enumerate(list, start=1), key=time_opened): the first position that
\* holds the latest time.
ArgMax(list) ==
    CHOOSE i \in 1..Len(list) :
        /\ \A j \in 1..Len(list) : list[j].time_opened <= list[i].time_opened
        /\ \A j \in 1..(i - 1) : list[j].time_opened < list[i].time_opened

parse_refnos(args, list) ==
    LET strs == SplitOn(JoinArgs(args), ",")
    IN  IF strs = <<(<<"all">>)>>
        THEN Outcome("return", "set", 1..Len(list), NULL)
        ELSE IF strs = <<(<<"last">>)>>
        THEN IF list = <<>>
             THEN Outcome("raise", "none", {}, "ValueError")
             ELSE Outcome("return", "set", {ArgMax(list)}, NULL)
        ELSE LET r == ParseItems(strs, {})
             IN  IF r.kind = "ValueError"
                 THEN Outcome("raise", "none", {}, "ArgumentError")
                 ELSE IF r.kind = "failure"
                 THEN Outcome("return", "_ret", {}, NULL)
                 ELSE IF \E n \in r.nums : n > Len(list)
                 THEN Outcome("raise", "none", {}, "ArgumentError")
                 ELSE Outcome("return", "list", r.nums, NULL)

\* A library of n articles whose time_opened values are a rotation of 1..n.
Library(n, rot) ==
    [i \in 1..n |-> [doi |-> i, title |-> "T0", time_added |-> i,
                     time_opened |-> ((i + rot) % n) + 1]]

Libraries == {Library(n, rot) : n \in 0..NArticles, rot \in 0..NArticles}

ParseCall ==
    /\ prpc = "idle"
    /\ prpc' = "done"
    /\ prresult' = parse_refnos(prargs, articleList)
    /\ UNCHANGED prargs
    /\ UNCHANGED <<batchVars, detectVars, fetchVars, resolveVars, diffVars, spinVars, addVars, delVars, sessVars>>

InitParse ==
    /\ SessIdle
    /\ DeleteIdle
    /\ articleList \in Libraries
    /\ BatchIdle
    /\ DetectIdle
    /\ FetchIdle
    /\ ResolveIdle
    /\ DiffIdle
    /\ SpinIdle
    /\ AddIdle
    /\ prpc = "idle"
    /\ prargs \in RefArgLists
    /\ prresult = NoOutcome

NextParse == ParseCall

SpecParse == InitParse /\ [][NextParse]_vars

\* C23: parse_refnos either raises ArgumentError or returns integers that
\* are all reference numbers of the list, between 1 and its length; no
\* input has any other outcome.
C23_ArgumentErrorOrValidRefnos ==
    prpc = "done" =>
        \/ prresult.kind = "raise" /\ prresult.exc = "ArgumentError"
        \/ /\ prresult.kind = "return"
           /\ prresult.type \in {"list", "set"}
           /\ \A r \in prresult.value : 1 <= r /\ r <= Len(articleList)

(***************************************************************************)
(* cli_delete (commands.py:619-672).                                       *)
(***************************************************************************)
\* refnos.sort(reverse=True)
RECURSIVE Descending(_)
Descending(S) ==
    IF S = {} THEN <<>>
    ELSE LET m == CHOOSE x \in S : \A y \in S : y <= x
         IN  <<m>> \o Descending(S \ {m})

\* The list without the entry at position k.
RemoveAt(list, k) == SubSeq(list, 1, k - 1) \o SubSeq(list, k + 1, Len(list))

\* The loop "for refno in refnos": article = _g.articleList[refno - 1], its
\* PDFs are unlinked, del _g.articleList[refno - 1], yes += 1.  Index -1
\* (refno 0) is the last entry, and an IndexError on an empty list.
RECURSIVE DeleteLoop(_, _, _, _)
DeleteLoop(rs, list, files, n) ==
    IF rs = <<>> THEN [list |-> list, files |-> files, yes |-> n, exc |-> NULL]
    ELSE IF list = <<>>
    THEN [list |-> list, files |-> files, yes |-> n, exc |-> "IndexError"]
    ELSE LET k == IF rs[1] = 0 THEN Len(list) ELSE rs[1]
         IN  DeleteLoop(Tail(rs), RemoveAt(list, k), files \ {list[k].doi}, n + 1)

\* Argument parsing of cli_delete, up to the prompt.
DeleteCall(args) ==
    /\ delpc = "idle"
    /\ delArgs' = args
    /\ delBefore' = [list |-> articleList, changes |-> changes]
    /\ LET r == parse_refnos(args, articleList)
       IN  IF articleList = <<>> \/ args = <<>>
           THEN /\ delpc' = "returned"
                /\ delResult' = "FAILURE"
                /\ delRefnos' = NoOutcome
           ELSE /\ delRefnos' = r
                /\ IF r.kind = "raise"
                   THEN IF r.exc = "ArgumentError"
                        THEN delpc' = "returned" /\ delResult' = "FAILURE"
                        ELSE delpc' = "raised" /\ delResult' = r.exc
                   ELSE IF r.type = "_ret"
                   THEN delpc' = "raised" /\ delResult' = "TypeError"
                   ELSE IF r.value = {}
                   THEN delpc' = "returned" /\ delResult' = "FAILURE"
                   ELSE delpc' = "prompt" /\ delResult' = NULL
    /\ UNCHANGED <<delAns, delFiles>>
    /\ UNCHANGED <<batchVars, detectVars, fetchVars, resolveVars, diffVars, spinVars, addVars, refVars, sessVars>>

\* The answer to "really delete ...?" and everything after it.
DeleteAnswer(ans) ==
    /\ delpc = "prompt"
    /\ delAns' = ans
    /\ IF ans \in Accepting
       THEN IF delRefnos.type = "set"
            THEN /\ delpc' = "raised"
                 /\ delResult' = "AttributeError"
                 /\ UNCHANGED <<articleList, changes, delFiles>>
            ELSE LET d == DeleteLoop(Descending(delRefnos.value), articleList,
                                     delFiles, 0)
                 IN  /\ articleList' = d.list
                     /\ delFiles' = d.files
                     /\ IF d.exc = NULL
                        THEN /\ changes' = changes \o Repeat("delete", d.yes)
                             /\ delpc' = "returned"
                             /\ delResult' = "SUCCESS"
                        ELSE /\ changes' = changes
                             /\ delpc' = "raised"
                             /\ delResult' = d.exc
       ELSE /\ delpc' = "returned"
            /\ delResult' = "SUCCESS"
            /\ UNCHANGED <<articleList, changes, delFiles>>
    /\ UNCHANGED <<delArgs, delBefore, delRefnos>>
    /\ UNCHANGED BatchRest
    /\ UNCHANGED <<detectVars, fetchVars, resolveVars, diffVars, spinVars, addVars, refVars, sessVars>>

InitDelete ==
    /\ SessIdle
    /\ DetectIdle
    /\ FetchIdle
    /\ ResolveIdle
    /\ DiffIdle
    /\ SpinIdle
    /\ AddIdle
    /\ RefIdle
    /\ articleList \in Libraries
    /\ refnos = <<>>
    /\ old_articles = <<>>
    /\ new_articles = <<>>
    /\ triples = <<>>
    /\ ipc = [k \in Items |-> "none"]
    /\ ires = [k \in Items |-> NoResult]
    /\ doneq = <<>>
    /\ bpc = "idle"
    /\ ppos = 0
    /\ yes = 0
    /\ changes \in {<<>>, <<"add">>}
    /\ spinTask = "none"
    /\ spinDone = 0
    /\ delpc = "idle"
    /\ delArgs = <<>>
    /\ delBefore = [list |-> <<>>, changes |-> <<>>]
    /\ delRefnos = NoOutcome
    /\ delAns = NULL
    /\ delResult = NULL
    /\ delFiles \in {{}, {1}}

NextDelete ==
    \/ \E args \in RefArgLists \cup {<<>>} : DeleteCall(args)
    \/ \E ans \in {"y", "n"} : DeleteAnswer(ans)

SpecDelete == InitDelete /\ [][NextDelete]_vars

\* The positions a delete command names, when its arguments are explicit
\* numbers, ranges or 'all' that parse to reference numbers of the list.
Selected ==
    IF delRefnos.kind = "return" /\ delRefnos.type \in {"list", "set"}
          /\ \A r \in delRefnos.value : 1 <= r /\ r <= Len(delBefore.list)
    THEN delRefnos.value
    ELSE {}

\* The original list without the selected positions, the rest in order.
Remaining ==
    LET keep == Ascending({k \in 1..Len(delBefore.list) : k \notin Selected})
    IN  [p \in 1..Len(keep) |-> delBefore.list[keep[p]]]

DeleteOver == delpc \in {"returned", "raised"}

\* C24: after a confirmed delete command for a set S of reference numbers
\* the article list is the original list without exactly the entries at the
\* positions S, the others in their original order; after a delete command
\* that was not confirmed the article list and the pending changes are as
\* they were.
C24_DeleteRemovesExactlySelected ==
    /\ (DeleteOver /\ delAns \in Accepting /\ Selected # {}) =>
            articleList = Remaining
    /\ (DeleteOver /\ delAns \notin Accepting) =>
            (articleList = delBefore.list /\ changes = delBefore.changes)

(***************************************************************************)
(* The session: cli_cd, cli_write (commands.py:42-118), the autosave task  *)
(* (backup.py:19-39) and reading and writing db.yaml.  The callers pass    *)
(* the path of the file, which is the interface of src/cygnet/fileio.py.   *)
(***************************************************************************)
\* Wake-ups of the autosave task the model follows.
MaxWakeups == 2

Home == "A"
\* "X" is a path that is not a directory.
CdArgs == {"home", "-", "X"} \cup Dirs

\* fileio.write_articles: the documents are vars(article) of every article.
Dump(list) == [kind |-> "yaml", docs |-> list]
\* fileio.read_articles: Article(**d) of every document.
Load(file) == file.docs

\* The library of another directory.
OtherLibrary ==
    <<[doi |-> NArticles + 1, title |-> "T0", time_added |-> 1, time_opened |-> 1]>>

CdTarget(arg) ==
    IF arg = "home" THEN Home
    ELSE IF arg = "-" THEN previousPath
    ELSE arg

\* cli_cd.  The prompt loop runs one command at a time, so it does not run
\* while cli_delete waits for its answer.  After a successful load,
\* backup.createBackup() is called before _sort.sort(); backup.py defines
\* create_backup, and the "return" of the finally block discards the
\* AttributeError, so the list is left as read or sorted.
CliCd(arg) ==
    /\ delpc # "prompt"
    /\ LET p == CdTarget(arg)
           save == articleList # <<>> /\ currentPath # NULL /\ changes # <<>>
           db1 == IF save THEN [db EXCEPT ![currentPath] = Dump(articleList)]
                          ELSE db
       IN  IF (arg = "-" /\ previousPath = NULL) \/ p \notin Dirs
           THEN /\ cdResult' = "FAILURE"
                /\ UNCHANGED <<articleList, changes, currentPath, previousPath, db,
                               cmdHistory, articleListHistory>>
           ELSE IF p = currentPath
           THEN /\ cdResult' = "None"
                /\ UNCHANGED <<articleList, changes, currentPath, previousPath, db,
                               cmdHistory, articleListHistory>>
           ELSE /\ db' = db1
                /\ changes' = IF save THEN <<>> ELSE changes
                /\ previousPath' = currentPath
                /\ currentPath' = p
                /\ articleList' \in
                      CASE db1[p].kind = "missing" -> {<<>>}
                        [] db1[p].kind = "invalid" -> {articleList}
                        [] OTHER -> {Load(db1[p]),
                                     SortLibrary(Load(db1[p]), sortReverse)}
                /\ cmdHistory' = <<>>
                /\ articleListHistory' = <<>>
                /\ cdResult' = "SUCCESS"
    /\ undone' = NoUndo
    /\ UNCHANGED <<wakeups, serial, preState>>
    /\ UNCHANGED BatchRest
    /\ UNCHANGED <<detectVars, fetchVars, resolveVars, diffVars, spinVars, addVars, refVars, delVars>>

\* cli_write
CliWrite ==
    /\ delpc # "prompt"
    /\ currentPath # NULL
    /\ IF articleList # <<>>
       THEN /\ db' = [db EXCEPT ![currentPath] = Dump(articleList)]
            /\ changes' = <<>>
       ELSE UNCHANGED <<db, changes>>
    /\ UNCHANGED <<articleList, currentPath, previousPath, wakeups, cdResult,
                   cmdHistory, articleListHistory, serial, preState, undone>>
    /\ UNCHANGED BatchRest
    /\ UNCHANGED <<detectVars, fetchVars, resolveVars, diffVars, spinVars, addVars, refVars, delVars>>

\* One turn of the loop of autosave(): after the sleep it saves when the list
\* is not empty and changes are pending, and only then clears the changes.
AutosaveWake ==
    /\ wakeups < MaxWakeups
    /\ currentPath # NULL
    /\ wakeups' = wakeups + 1
    /\ IF Len(articleList) # 0 /\ Len(changes) # 0
       THEN /\ db' = [db EXCEPT ![currentPath] = Dump(articleList)]
            /\ changes' = <<>>
       ELSE UNCHANGED <<db, changes>>
    /\ UNCHANGED <<articleList, currentPath, previousPath, cdResult, cmdHistory,
                   articleListHistory, serial, preState, undone>>
    /\ UNCHANGED BatchRest
    /\ UNCHANGED <<detectVars, fetchVars, resolveVars, diffVars, spinVars, addVars, refVars, delVars>>

\* The arguments given to delete in a session.
SessionDeleteArgs == {<<(<<"1">>)>>, <<(<<"1", "-", "2">>)>>, <<(<<"all">>)>>}

InitSession ==
    /\ DetectIdle
    /\ FetchIdle
    /\ ResolveIdle
    /\ DiffIdle
    /\ SpinIdle
    /\ AddIdle
    /\ RefIdle
    /\ DeleteIdle
    /\ BatchIdle
    /\ articleList \in Libraries
    /\ currentPath = Home
    /\ previousPath = NULL
    /\ \E other \in {MissingFile, InvalidFile, Dump(OtherLibrary)} :
          db = [d \in Dirs |-> IF d = Home
                               THEN IF articleList = <<>> THEN MissingFile
                                    ELSE Dump(articleList)
                               ELSE other]
    /\ wakeups = 0
    /\ cdResult = NULL
    /\ cmdHistory = <<>>
    /\ articleListHistory = <<>>
    /\ serial = 0
    /\ preState = <<>>
    /\ undone = NoUndo

NextSession ==
    \/ \E args \in SessionDeleteArgs : DeleteCall(args)
    \/ \E ans \in {"y", "n"} : DeleteAnswer(ans)
    \/ \E arg \in CdArgs : CliCd(arg)
    \/ CliWrite
    \/ AutosaveWake

SpecSession == InitSession /\ [][NextSession]_vars

\* C27: when the autosave task wakes up while a change is pending, it writes
\* the article list as it is then to the db.yaml of the current directory
\* and clears the pending changes, also when the list has become empty.
C27_WakeupSavesPending ==
    [][(wakeups' # wakeups /\ changes # <<>>) =>
            (changes' = <<>> /\ db'[currentPath'] = Dump(articleList'))]_vars

\* C29: a cd that changes the current path leaves in memory either the list
\* read from the db.yaml of the new path or the empty list.
C29_CdLoadsOrEmpties ==
    [][currentPath' # currentPath =>
            \/ articleList' = <<>>
            \/ /\ db'[currentPath'].kind = "yaml"
               /\ articleList' \in {Load(db'[currentPath']),
                                    SortLibrary(Load(db'[currentPath']), sortReverse)}]_vars

(***************************************************************************)
(* The undo history: _saveHist, _clearHist, _undo                          *)
(* (src/cygnet/_shared.py:297-329) and the prompt loop that calls them     *)
(* (src/cygnet/prompt.py:151-189).                                         *)
(***************************************************************************)
\* _g.maxHistory, the maxlen of both deques: 5 in _shared.py, scaled down
\* here together with the number of commands a run saves the history of.
maxHistory == 2
MaxCommands == 3

HistoryCommands == {"add", "delete", "sort"}

\* deque(maxlen=maxHistory).append(x): a full deque drops its oldest entry.
DequeAppend_Unbounded(q, x) == Append(q, x)
DequeAppend(q, x) ==
    IF Len(q) >= maxHistory THEN Tail(q) \o <<x>> ELSE Append(q, x)

Last(q) == q[Len(q)]
Front(q) == SubSeq(q, 1, Len(q) - 1)

\* What a command of the loop does to the article list: add appends a new
\* article, delete removes the first one, sort reverses the direction.
CommandEffect(cmd, list, n) ==
    CASE cmd = "add" ->
            IF Len(list) < MaxLibrary
            THEN Append(list, [doi |-> NArticles + 1 + n, title |-> "T1",
                               time_added |-> NArticles + 1 + n,
                               time_opened |-> NArticles + 1 + n])
            ELSE list
      [] cmd = "delete" -> IF list = <<>> THEN list ELSE Tail(list)
      [] cmd = "sort" -> SortLibrary(list, TRUE)

\* One turn of the prompt loop for edit, add, delete, update, sort or
\* import: _saveHist(cmd, args), then the command.  The command line is
\* the command and the number of the turn, so that no two are alike.
HistoryCommand(cmd) ==
    /\ serial < MaxCommands
    /\ serial' = serial + 1
    /\ preState' = Append(preState, articleList)
    /\ cmdHistory' = DequeAppend(cmdHistory, [line |-> cmd, n |-> serial + 1])
    /\ articleListHistory' = DequeAppend(articleListHistory, articleList)
    /\ articleList' = CommandEffect(cmd, articleList, serial)
    /\ changes' = IF articleList' # articleList THEN Append(changes, cmd)
                                               ELSE changes
    /\ undone' = NoUndo
    /\ UNCHANGED <<currentPath, previousPath, db, wakeups, cdResult>>
    /\ UNCHANGED BatchRest
    /\ UNCHANGED <<detectVars, fetchVars, resolveVars, diffVars, spinVars, addVars, refVars, delVars>>

\* _undo: the three statements of the try block in their order; IndexError
\* from either pop ends it with a failure.
Undo ==
    /\ LET before == [list |-> articleList, changes |-> changes,
                      cmds |-> cmdHistory, lists |-> articleListHistory]
       IN  IF articleListHistory = <<>>
           THEN /\ undone' = [result |-> "FAILURE", printed |-> 0, before |-> before]
                /\ UNCHANGED <<articleList, articleListHistory, changes, cmdHistory>>
           ELSE /\ articleList' = Last(articleListHistory)
                /\ articleListHistory' = Front(articleListHistory)
                /\ changes' = Append(changes, "undo")
                /\ IF cmdHistory = <<>>
                   THEN /\ undone' = [result |-> "FAILURE", printed |-> 0,
                                      before |-> before]
                        /\ UNCHANGED cmdHistory
                   ELSE /\ undone' = [result |-> "SUCCESS",
                                      printed |-> Last(cmdHistory).n,
                                      before |-> before]
                        /\ cmdHistory' = Front(cmdHistory)
    /\ UNCHANGED <<currentPath, previousPath, db, wakeups, cdResult, serial, preState>>
    /\ UNCHANGED BatchRest
    /\ UNCHANGED <<detectVars, fetchVars, resolveVars, diffVars, spinVars, addVars, refVars, delVars>>

InitHistory ==
    /\ DetectIdle
    /\ FetchIdle
    /\ ResolveIdle
    /\ DiffIdle
    /\ SpinIdle
    /\ AddIdle
    /\ RefIdle
    /\ DeleteIdle
    /\ BatchIdle
    /\ articleList = Library(1, 0)
    /\ currentPath = Home
    /\ previousPath = NULL
    /\ \E other \in {MissingFile, InvalidFile, Dump(OtherLibrary)} :
          db = [d \in Dirs |-> IF d = Home THEN Dump(articleList) ELSE other]
    /\ wakeups = 0
    /\ cdResult = NULL
    /\ cmdHistory = <<>>
    /\ articleListHistory = <<>>
    /\ serial = 0
    /\ preState = <<>>
    /\ undone = NoUndo

NextHistory ==
    \/ \E cmd \in HistoryCommands : HistoryCommand(cmd)
    \/ Undo
    \/ \E arg \in {"home", "B"} : CliCd(arg)

SpecHistory == InitHistory /\ [][NextHistory]_vars

\* C28: the command history and the snapshot history have the same length,
\* at most maxHistory (5 in the source), and entry by entry the snapshot is the article list as it was
\* before the command; so a successful undo prints the command whose
\* pre-state it restored, and an undo on an empty history fails and leaves
\* the article list, both histories and the pending changes as they were.
C28_HistoriesCorrespond ==
    /\ Len(cmdHistory) = Len(articleListHistory)
    /\ Len(cmdHistory) <= maxHistory
    /\ \A i \in 1..Len(cmdHistory) :
          articleListHistory[i] = preState[cmdHistory[i].n]
    /\ undone.result = "SUCCESS" => articleList = preState[undone.printed]
    /\ undone.result = "FAILURE" =>
          /\ undone.before.cmds = <<>>
          /\ articleList = undone.before.list
          /\ changes = undone.before.changes
          /\ cmdHistory = undone.before.cmds
          /\ articleListHistory = undone.before.lists

\* A successful undo after the histories had overflowed.
C28_Witness ==
    /\ undone.result = "SUCCESS"
    /\ serial > maxHistory
    /\ Len(cmdHistory) = maxHistory - 1
    /\ articleList # undone.before.list

====
